---- MODULE Spec2Model ----
(***************************************************************************)
(* Tomodachi messenger: the chat / presence view-model synchronisation     *)
(* logic of the web client, over the document store it talks to.           *)
(*                                                                         *)
(*   Spec             the chat store, Home and ChatWindow of every user    *)
(*   ReliableSpec     the same over a store that accepts every write       *)
(*   ReadReceiptSpec  ReliableSpec with every scheduled snapshot delivered *)
(*   StartChatSpec    Spec with UserSearch.handleStartChat                 *)
(*   WindowSpec       Spec with a third contact and Home unmounting        *)
(*   SidebarSpec      the Sidebar chat list (sort by updatedAt, badge)     *)
(*   SidebarLifeSpec  the Sidebar's chat and profile subscriptions         *)
(*   SearchSpec       the user search of both Sidebars and of UserSearch   *)
(*   DateSpec         the date separators of a rendered message list       *)
(*   PresenceSpec     AuthProvider's online-status effect                  *)
(*   ClientSpec       one client: its chat window and its chat list        *)
(*   FailingStoreSpec  Spec with read receipts that the store rejects      *)
(*   SequentialSpec   createOrGetChat called one call after the other      *)
(*   SendSpec         Spec with handleSend invoked where its guard returns *)
(*   ProfileSpec      the recipient profile of a chat window               *)
(*   EditSpec         the profile edits over the users documents           *)
(*   DeleteChatSpec   deleteChat over a store that others write to         *)
(*   DeleteAccountSpec  deleteAccount over the same store                  *)
(***************************************************************************)
EXTENDS Integers, Sequences, FiniteSets, TLC

\* ------------------------------------------------------------------ bounds
MaxChats == 2      \* chat documents the store may hold
MaxMsgs == 2       \* message documents the store may hold, over all chats
MaxSends == 2      \* handleSend invocations, over all chat windows
MaxStartChat == 1  \* UserSearch.handleStartChat invocations, over all users
MaxListed == 2     \* chat documents in one snapshot of the chat query
MaxTime == 3       \* the client clock runs from 0 to MaxTime
MaxProfileSubs == 3  \* profile listeners one client opens and never closes
MaxShown == 3      \* messages with a server timestamp in one rendered message list
MaxStored == 3     \* message documents ever written to the store that deletions run on
MaxCalls == 3      \* createOrGetChat calls made one after the other
MaxEdits == 3      \* profile edits made, over all users

\* ------------------------------------------------------------ JS values
Null == "null"              \* a null user id
Undefined == "undefined"    \* an undefined user id
NullId == 0                 \* a null chat id; document ids count from 1
UndefinedMsg == [tag |-> "undefined"]   \* lastMessage absent from the document
NullMsg == [tag |-> "null"]             \* lastMessage: null

Users == {"u1", "u2"}
\* with a third account, which runs no client here and is only ever a recipient
Contacts == Users \cup {"u3"}
\* the user whose client is followed where one client is modelled
ClientUser == "u1"

\* Texts are sequences of characters; " " is the only whitespace used.
\* What each user types into the input field.
Inputs(u) == IF u = "u1" THEN { <<"a">>, <<" ", "a">> } ELSE { <<"b">> }

RECURSIVE TrimStart(_)
TrimStart(s) ==
  IF s = <<>> THEN <<>>
  ELSE IF Head(s) = " " THEN TrimStart(Tail(s)) ELSE s

RECURSIVE TrimEnd(_)
TrimEnd(s) ==
  IF s = <<>> THEN <<>>
  ELSE IF s[Len(s)] = " " THEN TrimEnd(SubSeq(s, 1, Len(s) - 1)) ELSE s

\* String.prototype.trim
Trim(s) == TrimEnd(TrimStart(s))

VARIABLES
  \* document store
  chatDocs,         \* the chats collection: sequence of chat documents, id = index
  messageDocs,      \* chats/{id}/messages: per chat, the documents by timestamp
  \* Home
  selectedChatId, recipientId,
  \* ChatWindow
  messages, newMessage, loading, isSending,
  subscribed,       \* chat id of the open onSnapshot listener, or NullId
  snapshotPending,  \* the listener has a snapshot to deliver
  \* handleSend in flight: position and locals
  sendPc, messageText, activeChatId, sendRecipient, optimisticId, messageRef,
  \* createOrGetChat in flight
  cogPc, cogOther, cogCount,
  \* history
  sendCount,        \* handleSend invocations so far (the clock of Date.now())
  sendLog,          \* store writes of the handleSend in flight, in order
  submitted,        \* content of the input field when the send in flight began
  windowCreated,    \* chats created by handleSend since the window's last selection
  finished          \* the handleSend that returned in the last step, if any

storeVars == <<chatDocs, messageDocs>>
homeVars == <<selectedChatId, recipientId>>
windowVars == <<messages, newMessage, loading, isSending, subscribed, snapshotPending>>
sendVars == <<sendPc, messageText, activeChatId, sendRecipient, optimisticId, messageRef>>
cogVars == <<cogPc, cogOther, cogCount>>
histVars == <<sendCount, sendLog, submitted, windowCreated, finished>>
chatVars == <<storeVars, homeVars, windowVars, sendVars, cogVars, histVars>>

\* one client's Sidebar
VARIABLES
  currentUser,      \* AuthContext currentUser of the client: a user id or Null
  querySnapshot,    \* the chat documents the chat query delivers, in id order
  chats,            \* Sidebar state: the chat list it renders
  sidebarMounted,   \* the Sidebar is mounted: its chat subscription is open
  chatsDue,         \* the chat subscription has a snapshot to deliver
  profileSubs,      \* per recipient id, the open profile listeners of the mounted Sidebar
  staleSubs,        \* per recipient id, the open profile listeners of unmounted Sidebars
  recipientsInfo    \* Sidebar state: recipient id -> profile, Undefined where absent

sidebarVars == <<querySnapshot, chats, sidebarMounted, chatsDue, profileSubs, staleSubs,
                 recipientsInfo>>

\* one client's AuthProvider and the profiles it writes
VARIABLES
  authCurrentUser,  \* auth.currentUser
  users,            \* the users collection: presence fields of every profile
  now,              \* the client clock
  tabOpen, visible, \* the page is loaded; document.visibilityState = 'visible'
  lastHeartbeat,    \* per user, when isOnline=true was last written
  presenceEvent,    \* what the last step was
  unhandled         \* the calls whose rejected promise no handler took

presenceVars == <<authCurrentUser, users, now, tabOpen, visible, lastHeartbeat, presenceEvent,
                  unhandled>>

\* one client's user search
VARIABLES
  userDocs,         \* the users collection: the profile documents in document-id order
  searchQuery,      \* Sidebar / UserSearch state: the text of the search field
  searchResults,    \* Sidebar / UserSearch state: the result list shown
  \* history of the last search
  searchBy,         \* which handleSearch ran
  searchPrimary,    \* the results after the primary pass
  searchArrived,    \* the results in the order they were pushed, before any sort
  searchFallback    \* the fallback query was issued

searchVars == <<userDocs, searchQuery, searchResults, searchBy, searchPrimary, searchArrived,
                searchFallback>>

\* the message list of one chat window with its timestamps, as rendered
VARIABLES
  datedMessages,    \* ChatWindow state messages: the timestamp of every entry
  separators        \* per rendered message, whether a date separator is shown before it

dateVars == <<datedMessages, separators>>

\* the store that deleteChat and deleteAccount run on, and both in flight
VARIABLES
  storedChats,      \* ids of the chat documents in the store
  storedMessages,   \* per chat id, the ids of the message documents under it
  storedUsers,      \* ids of the users documents in the store
  accounts,         \* the auth accounts
  issued,           \* message documents written so far
  dcPc,             \* deleteChat: position
  dcChatId,         \* deleteChat: its argument
  dcPending,        \* deleteChat: the deleteDoc calls of deletePromises not yet settled
  daPc,             \* deleteAccount: position
  daTask,           \* deleteAccount: per chat of the query, the position of its task
  daPending         \* deleteAccount: per chat, the deleteDoc calls not yet settled

deleteVars == <<storedChats, storedMessages, storedUsers, accounts, issued, dcPc, dcChatId,
                dcPending, daPc, daTask, daPending>>

\* the recipient profile of every chat window
VARIABLES
  chatId,           \* ChatWindow prop chatId, NullId for null
  propRecipientId,  \* ChatWindow prop recipientId
  recipientProfile, \* ChatWindow state: the user id of the profile held, or Null
  profileReads      \* the getDoc calls of fetchRecipientProfile in flight, by recipient

profileVars == <<chatId, propRecipientId, recipientProfile, profileReads>>

\* the profile documents that the profile edits write
VARIABLES
  profileDocs,      \* the users collection: document id -> the fields of the document
  authProfile,      \* per user, currentUser.displayName of the auth account
  profileEdit       \* the last profile edit: its number, who ran it, which operation

editVars == <<profileDocs, authProfile, profileEdit>>

vars == <<chatVars, currentUser, sidebarVars, presenceVars, searchVars, dateVars, deleteVars,
          profileVars, editVars>>

\* what the actions of one part leave alone
notChat == <<editVars, deleteVars, profileVars, currentUser, sidebarVars, presenceVars, searchVars, dateVars>>
notSidebar == <<editVars, deleteVars, profileVars, chatVars, presenceVars, searchVars, dateVars>>
notPresence == <<editVars, deleteVars, profileVars, chatVars, sidebarVars, searchVars, dateVars>>
notSearch == <<editVars, deleteVars, profileVars, chatVars, sidebarVars, presenceVars, dateVars>>
notDate == <<chatVars, currentUser, sidebarVars, presenceVars, searchVars, deleteVars,
            profileVars, editVars>>
notDelete == <<chatVars, currentUser, sidebarVars, presenceVars, searchVars, dateVars,
              profileVars, editVars>>
notProfile == <<chatVars, currentUser, sidebarVars, presenceVars, searchVars, dateVars,
               deleteVars, editVars>>
notEdit == <<chatVars, currentUser, sidebarVars, presenceVars, searchVars, dateVars,
            deleteVars, profileVars>>

NoRef == <<NullId, 0>>
NoFinish == [result |-> "none"]

ChatIds == 1..Len(chatDocs)

RECURSIVE SumLen(_)
SumLen(s) == IF s = <<>> THEN 0 ELSE Len(Head(s)) + SumLen(Tail(s))

TotalMsgs == SumLen(messageDocs)

\* data.participants.includes(id)
Includes(participants, id) == \E i \in 1..Len(participants) : participants[i] = id

\* where('participants', 'array-contains', uid)
ChatsOf(u) == { c \in ChatIds : Includes(chatDocs[c].participants, u) }

ChatInit ==
  /\ chatDocs = <<>>
  /\ messageDocs = <<>>
  /\ selectedChatId = [u \in Users |-> NullId]
  /\ recipientId = [u \in Users |-> Null]
  /\ messages = [u \in Users |-> <<>>]
  /\ newMessage = [u \in Users |-> <<>>]
  /\ loading = [u \in Users |-> FALSE]
  /\ isSending = [u \in Users |-> FALSE]
  /\ subscribed = [u \in Users |-> NullId]
  /\ snapshotPending = [u \in Users |-> FALSE]
  /\ sendPc = [u \in Users |-> "idle"]
  /\ messageText = [u \in Users |-> <<>>]
  /\ activeChatId = [u \in Users |-> NullId]
  /\ sendRecipient = [u \in Users |-> Null]
  /\ optimisticId = [u \in Users |-> 0]
  /\ messageRef = [u \in Users |-> NoRef]
  /\ cogPc = [u \in Users |-> "idle"]
  /\ cogOther = [u \in Users |-> Null]
  /\ cogCount = 0
  /\ sendCount = 0
  /\ sendLog = [u \in Users |-> <<>>]
  /\ submitted = [u \in Users |-> <<>>]
  /\ windowCreated = [u \in Users |-> 0]
  /\ finished = NoFinish

\* ------------------------------------------------------------ ChatWindow

\* The entry handleSend shows before the write is confirmed ('temp-' + Date.now()).
OptimisticMessage(u) ==
  [id |-> <<"temp", 0, optimisticId[u]>>, senderId |-> u, text |-> messageText[u], read |-> FALSE]

\* prev.filter(msg => msg.id !== optimisticMessage.id)
RECURSIVE RemoveOptimistic(_, _)
RemoveOptimistic(list, id) ==
  IF list = <<>> THEN <<>>
  ELSE (IF Head(list).id # id THEN <<Head(list)>> ELSE <<>>)
       \o RemoveOptimistic(Tail(list), id)

\* snapshot.forEach(doc => loadedMessages.push({id: doc.id, ..., read: data.read || false}))
LoadedMessages(c) ==
  [i \in 1..Len(messageDocs[c]) |->
     [id |-> <<"doc", c, i>>, senderId |-> messageDocs[c][i].senderId,
      text |-> messageDocs[c][i].text, read |-> messageDocs[c][i].read]]

\* the read receipt without the test of the sender
MarkReadAnySender(u, docs) ==
  [i \in 1..Len(docs) |->
     IF ~docs[i].read THEN [docs[i] EXCEPT !.read = TRUE] ELSE docs[i]]

\* updateDoc(doc.ref, {read: true}) for every message of the snapshot that the
\* current user received and that is unread
MarkRead(u, docs) ==
  [i \in 1..Len(docs) |->
     IF docs[i].senderId # u /\ ~docs[i].read THEN [docs[i] EXCEPT !.read = TRUE]
     ELSE docs[i]]

\* a store that schedules no snapshot after a write
NotifyNoListener(c, pending) == pending

\* The store schedules a snapshot for every listener of chat c's messages.
NotifyListeners(c, pending) ==
  [v \in Users |-> IF subscribed[v] = c THEN TRUE ELSE pending[v]]

\* the effect without its cleanup: with no chat id to subscribe to, the listener
\* of the previous chat stays open
ChatIdEffectNoCleanup(u, newId) ==
  IF newId = selectedChatId[u]
  THEN UNCHANGED <<messages, loading, subscribed, snapshotPending>>
  ELSE /\ messages' = [messages EXCEPT ![u] = <<>>]
       /\ loading' = [loading EXCEPT ![u] = IF newId # NullId THEN TRUE ELSE @]
       /\ subscribed' = [subscribed EXCEPT ![u] = IF newId # NullId THEN newId ELSE @]
       /\ snapshotPending' = [snapshotPending EXCEPT ![u] = IF newId # NullId THEN TRUE ELSE @]

\* useEffect(..., [chatId, currentUser]): runs when the chatId prop changes.
ChatIdEffect(u, newId) ==
  IF newId = selectedChatId[u]
  THEN UNCHANGED <<messages, loading, subscribed, snapshotPending>>
  ELSE /\ messages' = [messages EXCEPT ![u] = <<>>]
       /\ loading' = [loading EXCEPT ![u] = IF newId # NullId THEN TRUE ELSE @]
       /\ subscribed' = [subscribed EXCEPT ![u] = newId]
       /\ snapshotPending' = [snapshotPending EXCEPT ![u] = (newId # NullId)]

\* the callback patching the list it has instead of replacing it:
\* setMessages(prev => [...prev, ...loadedMessages])
MessageSnapshotAppends(u) ==
  /\ subscribed[u] # NullId
  /\ snapshotPending[u]
  /\ LET c == subscribed[u]
         marked == MarkRead(u, messageDocs[c])
         delivered == [snapshotPending EXCEPT ![u] = FALSE]
     IN /\ messageDocs' = [messageDocs EXCEPT ![c] = marked]
        /\ messages' = [messages EXCEPT ![u] = @ \o LoadedMessages(c)]
        /\ snapshotPending' = IF marked # messageDocs[c]
                              THEN NotifyListeners(c, delivered) ELSE delivered
  /\ loading' = [loading EXCEPT ![u] = FALSE]
  /\ finished' = NoFinish
  /\ UNCHANGED <<chatDocs, homeVars, newMessage, isSending, subscribed, sendVars, cogVars,
                 sendCount, sendLog, submitted, windowCreated>>
  /\ UNCHANGED notChat

\* onSnapshot callback of the message subscription
MessageSnapshot(u) ==
  /\ subscribed[u] # NullId
  /\ snapshotPending[u]
  /\ LET c == subscribed[u]
         marked == MarkRead(u, messageDocs[c])
         delivered == [snapshotPending EXCEPT ![u] = FALSE]
     IN /\ messageDocs' = [messageDocs EXCEPT ![c] = marked]
        /\ messages' = [messages EXCEPT ![u] = LoadedMessages(c)]
        /\ snapshotPending' = IF marked # messageDocs[c]
                              THEN NotifyListeners(c, delivered) ELSE delivered
  /\ loading' = [loading EXCEPT ![u] = FALSE]
  /\ finished' = NoFinish
  /\ UNCHANGED <<chatDocs, homeVars, newMessage, isSending, subscribed, sendVars, cogVars,
                 sendCount, sendLog, submitted, windowCreated>>
  /\ UNCHANGED notChat

\* the same callback when the store refuses the read receipts: updateDoc is
\* called without await and without catch, so its rejection reaches no handler;
\* the callback itself runs to its end
ReadReceiptRejected(u) ==
  /\ subscribed[u] # NullId
  /\ snapshotPending[u]
  /\ MarkRead(u, messageDocs[subscribed[u]]) # messageDocs[subscribed[u]]
  /\ messages' = [messages EXCEPT ![u] = LoadedMessages(subscribed[u])]
  /\ snapshotPending' = [snapshotPending EXCEPT ![u] = FALSE]
  /\ loading' = [loading EXCEPT ![u] = FALSE]
  /\ finished' = NoFinish
  /\ unhandled' = unhandled \cup {"readReceipt"}
  /\ UNCHANGED <<storeVars, homeVars, newMessage, isSending, subscribed, sendVars, cogVars,
                 sendCount, sendLog, submitted, windowCreated>>
  /\ UNCHANGED <<currentUser, sidebarVars, searchVars, dateVars, deleteVars, profileVars,
                 editVars>>
  /\ UNCHANGED <<authCurrentUser, users, now, tabOpen, visible, lastHeartbeat, presenceEvent>>

\* onChange of the input field (the user types into the empty field between sends)
SetNewMessage(u, t) ==
  /\ selectedChatId[u] # NullId \/ recipientId[u] # Null
  /\ newMessage[u] = <<>>
  /\ ~isSending[u]
  /\ newMessage' = [newMessage EXCEPT ![u] = t]
  /\ finished' = NoFinish
  /\ UNCHANGED <<storeVars, homeVars, messages, loading, isSending, subscribed,
                 snapshotPending, sendVars, cogVars, sendCount, sendLog, submitted,
                 windowCreated>>
  /\ UNCHANGED notChat

\* handleSend that does not look at isSending
HandleSendStartWhileSending(u) ==
  /\ Trim(newMessage[u]) # <<>>
  /\ selectedChatId[u] # NullId \/ recipientId[u] # Null
  /\ sendCount < MaxSends
  /\ messageText' = [messageText EXCEPT ![u] = Trim(newMessage[u])]
  /\ newMessage' = [newMessage EXCEPT ![u] = <<>>]
  /\ isSending' = [isSending EXCEPT ![u] = TRUE]
  /\ optimisticId' = [optimisticId EXCEPT ![u] = sendCount + 1]
  /\ activeChatId' = [activeChatId EXCEPT ![u] = selectedChatId[u]]
  /\ sendRecipient' = [sendRecipient EXCEPT ![u] = recipientId[u]]
  /\ IF selectedChatId[u] = NullId
     THEN /\ sendPc' = [sendPc EXCEPT ![u] = "createChat"]
          /\ sendLog' = [sendLog EXCEPT ![u] = <<"noChatId">>]
          /\ UNCHANGED messages
     ELSE /\ sendPc' = [sendPc EXCEPT ![u] = "addMessage"]
          /\ sendLog' = [sendLog EXCEPT ![u] = <<"chatId">>]
          /\ messages' = [messages EXCEPT ![u] = Append(@, OptimisticMessage(u)')]
  /\ sendCount' = sendCount + 1
  /\ submitted' = [submitted EXCEPT ![u] = newMessage[u]]
  /\ finished' = NoFinish
  /\ UNCHANGED <<storeVars, homeVars, loading, subscribed, snapshotPending, messageRef,
                 cogVars, windowCreated>>
  /\ UNCHANGED notChat

\* handleSend up to its first await
HandleSendStart(u) ==
  /\ Trim(newMessage[u]) # <<>>
  /\ ~isSending[u]
  /\ selectedChatId[u] # NullId \/ recipientId[u] # Null
  /\ sendCount < MaxSends
  /\ messageText' = [messageText EXCEPT ![u] = Trim(newMessage[u])]
  /\ newMessage' = [newMessage EXCEPT ![u] = <<>>]
  /\ isSending' = [isSending EXCEPT ![u] = TRUE]
  /\ optimisticId' = [optimisticId EXCEPT ![u] = sendCount + 1]
  /\ activeChatId' = [activeChatId EXCEPT ![u] = selectedChatId[u]]
  /\ sendRecipient' = [sendRecipient EXCEPT ![u] = recipientId[u]]
  /\ IF selectedChatId[u] = NullId
     THEN /\ sendPc' = [sendPc EXCEPT ![u] = "createChat"]
          /\ sendLog' = [sendLog EXCEPT ![u] = <<"noChatId">>]
          /\ UNCHANGED messages
     ELSE /\ sendPc' = [sendPc EXCEPT ![u] = "addMessage"]
          /\ sendLog' = [sendLog EXCEPT ![u] = <<"chatId">>]
          /\ messages' = [messages EXCEPT ![u] = Append(@, OptimisticMessage(u)')]
  /\ sendCount' = sendCount + 1
  /\ submitted' = [submitted EXCEPT ![u] = newMessage[u]]
  /\ finished' = NoFinish
  /\ UNCHANGED <<storeVars, homeVars, loading, subscribed, snapshotPending, messageRef,
                 cogVars, windowCreated>>
  /\ UNCHANGED notChat

\* handleSend when its first line returns: if (!newMessage.trim() || !currentUser
\* || isSending) return; a chat window exists for a signed-in user only
HandleSendIgnored(u) ==
  /\ Trim(newMessage[u]) = <<>> \/ isSending[u]
  /\ selectedChatId[u] # NullId \/ recipientId[u] # Null
  /\ finished' = [result |-> "ignored", user |-> u]
  /\ UNCHANGED <<storeVars, homeVars, windowVars, sendVars, cogVars,
                 sendCount, sendLog, submitted, windowCreated>>
  /\ UNCHANGED notChat

\* onChange of the input field while a send is in flight: the field is not
\* disabled
SetNewMessageWhileSending(u, t) ==
  /\ isSending[u]
  /\ newMessage[u] = <<>>
  /\ newMessage' = [newMessage EXCEPT ![u] = t]
  /\ finished' = NoFinish
  /\ UNCHANGED <<storeVars, homeVars, messages, loading, isSending, subscribed,
                 snapshotPending, sendVars, cogVars, sendCount, sendLog, submitted,
                 windowCreated>>
  /\ UNCHANGED notChat

\* handleSend returns (finally { setIsSending(false) }): its locals are gone
HandleSendReturn(u, result, log) ==
  /\ isSending' = [isSending EXCEPT ![u] = FALSE]
  /\ sendPc' = [sendPc EXCEPT ![u] = "idle"]
  /\ messageText' = [messageText EXCEPT ![u] = <<>>]
  /\ activeChatId' = [activeChatId EXCEPT ![u] = NullId]
  /\ sendRecipient' = [sendRecipient EXCEPT ![u] = Null]
  /\ optimisticId' = [optimisticId EXCEPT ![u] = 0]
  /\ messageRef' = [messageRef EXCEPT ![u] = NoRef]
  /\ sendLog' = [sendLog EXCEPT ![u] = <<>>]
  /\ submitted' = [submitted EXCEPT ![u] = <<>>]
  /\ finished' = [result |-> result, user |-> u, at |-> sendPc[u], log |-> log,
                  submitted |-> submitted[u], text |-> messageText[u],
                  chat |-> activeChatId[u], temp |-> <<"temp", 0, optimisticId[u]>>,
                  ref |-> messageRef[u]]

\* the catch block without setNewMessage(messageText)
HandleSendCatchNoRestore(u) ==
  /\ messages' = [messages EXCEPT ![u] = RemoveOptimistic(@, <<"temp", 0, optimisticId[u]>>)]
  /\ UNCHANGED newMessage
  /\ HandleSendReturn(u, "fail", sendLog[u])
  /\ UNCHANGED <<storeVars, homeVars, loading, subscribed, snapshotPending, cogVars,
                 sendCount, windowCreated>>

\* catch (error) { remove the optimistic entry; setNewMessage(messageText) }
HandleSendCatch(u) ==
  /\ messages' = [messages EXCEPT ![u] = RemoveOptimistic(@, <<"temp", 0, optimisticId[u]>>)]
  /\ newMessage' = [newMessage EXCEPT ![u] = messageText[u]]
  /\ HandleSendReturn(u, "fail", sendLog[u])
  /\ UNCHANGED <<storeVars, homeVars, loading, subscribed, snapshotPending, cogVars,
                 sendCount, windowCreated>>

\* addDoc(collection(db, 'chats'), ...) not awaited: handleSend goes on with the id
\* of the new reference while the chat document is not yet written
HandleSendCreateChatNotAwaited(u) ==
  /\ sendPc[u] = "createChat"
  /\ Len(chatDocs) < MaxChats
  /\ activeChatId' = [activeChatId EXCEPT ![u] = Len(chatDocs) + 1]
  /\ messages' = [messages EXCEPT ![u] = Append(@, OptimisticMessage(u))]
  /\ sendPc' = [sendPc EXCEPT ![u] = "addMessage"]
  /\ finished' = NoFinish
  /\ UNCHANGED <<storeVars, homeVars, newMessage, loading, isSending, subscribed,
                 snapshotPending, messageText, sendRecipient, optimisticId, messageRef,
                 cogVars, sendCount, sendLog, submitted, windowCreated>>
  /\ UNCHANGED notChat

\* await addDoc(collection(db, 'chats'), {participants, createdAt, updatedAt}),
\* then the optimistic entry is shown and the message write is issued
HandleSendCreateChat(u) ==
  /\ sendPc[u] = "createChat"
  /\ Len(chatDocs) < MaxChats
  /\ chatDocs' = Append(chatDocs, [participants |-> <<u, sendRecipient[u]>>,
                                   lastMessage |-> UndefinedMsg])
  /\ messageDocs' = Append(messageDocs, <<>>)
  /\ activeChatId' = [activeChatId EXCEPT ![u] = Len(chatDocs) + 1]
  /\ messages' = [messages EXCEPT ![u] = Append(@, OptimisticMessage(u))]
  /\ sendPc' = [sendPc EXCEPT ![u] = "addMessage"]
  /\ sendLog' = [sendLog EXCEPT ![u] = Append(@, "chat")]
  /\ windowCreated' = [windowCreated EXCEPT ![u] = @ + 1]
  /\ finished' = NoFinish
  /\ UNCHANGED <<homeVars, newMessage, loading, isSending, subscribed, snapshotPending,
                 messageText, sendRecipient, optimisticId, messageRef, cogVars,
                 sendCount, submitted>>
  /\ UNCHANGED notChat

HandleSendCreateChatFails(u) ==
  /\ sendPc[u] = "createChat"
  /\ HandleSendCatch(u)
  /\ UNCHANGED notChat

\* await addDoc(collection(db, `chats/${activeChatId}/messages`), {...})
HandleSendAddMessage(u) ==
  /\ sendPc[u] = "addMessage"
  /\ TotalMsgs < MaxMsgs
  /\ LET c == activeChatId[u] IN
       /\ messageDocs' = [messageDocs EXCEPT ![c] =
             Append(@, [senderId |-> u, text |-> messageText[u], read |-> FALSE])]
       /\ messageRef' = [messageRef EXCEPT ![u] = <<c, Len(messageDocs[c]) + 1>>]
       /\ snapshotPending' = NotifyListeners(c, snapshotPending)
  /\ sendPc' = [sendPc EXCEPT ![u] = "updateChat"]
  /\ sendLog' = [sendLog EXCEPT ![u] = Append(@, "message")]
  /\ finished' = NoFinish
  /\ UNCHANGED <<chatDocs, homeVars, messages, newMessage, loading, isSending, subscribed,
                 messageText, activeChatId, sendRecipient, optimisticId, cogVars,
                 sendCount, submitted, windowCreated>>
  /\ UNCHANGED notChat

HandleSendAddMessageFails(u) ==
  /\ sendPc[u] = "addMessage"
  /\ HandleSendCatch(u)
  /\ UNCHANGED notChat

\* await updateDoc(doc(db, 'chats', activeChatId), {lastMessage, updatedAt}),
\* then the optimistic entry is removed
HandleSendUpdateChat(u) ==
  /\ sendPc[u] = "updateChat"
  /\ chatDocs' = [chatDocs EXCEPT ![activeChatId[u]].lastMessage =
                    [tag |-> "object", text |-> messageText[u], senderId |-> u, read |-> FALSE]]
  /\ messages' = [messages EXCEPT ![u] = RemoveOptimistic(@, <<"temp", 0, optimisticId[u]>>)]
  /\ HandleSendReturn(u, "ok", Append(sendLog[u], "lastMessage"))
  /\ UNCHANGED <<messageDocs, homeVars, newMessage, loading, subscribed, snapshotPending,
                 cogVars, sendCount, windowCreated>>
  /\ UNCHANGED notChat

HandleSendUpdateChatFails(u) ==
  /\ sendPc[u] = "updateChat"
  /\ HandleSendCatch(u)
  /\ UNCHANGED notChat

\* ------------------------------------------------------------------ Home

\* chatData.participants.find(id => id !== currentUser.uid)
FindRecipient(participants, u) ==
  IF \E i \in 1..Len(participants) : participants[i] # u
  THEN participants[CHOOSE i \in 1..Len(participants) :
                      /\ participants[i] # u
                      /\ \A j \in 1..(i - 1) : participants[j] = u]
  ELSE Undefined

\* Home.handleChatSelect, called by the Sidebar with a chat of its list
HandleChatSelect(u, c) ==
  /\ c \in ChatsOf(u)
  /\ selectedChatId[u] # c \/ recipientId[u] # FindRecipient(chatDocs[c].participants, u)
  /\ ChatIdEffect(u, c)
  /\ selectedChatId' = [selectedChatId EXCEPT ![u] = c]
  /\ recipientId' = [recipientId EXCEPT ![u] = FindRecipient(chatDocs[c].participants, u)]
  /\ windowCreated' = [windowCreated EXCEPT ![u] = 0]
  /\ finished' = NoFinish
  /\ UNCHANGED <<storeVars, newMessage, isSending, sendVars, cogVars,
                 sendCount, sendLog, submitted>>
  /\ UNCHANGED notChat

\* querySnapshot.forEach(doc => { if (includes(user.uid)) existingChatId = doc.id })
ExistingChatId(u, o) ==
  LET found == { c \in ChatsOf(u) : Includes(chatDocs[c].participants, o) }
  IN IF found = {} THEN NullId ELSE CHOOSE c \in found : \A d \in found : d <= c

\* Home.handleUserSelect, called with a user of the search results
HandleUserSelect(u, o) ==
  /\ o # u
  /\ selectedChatId[u] # ExistingChatId(u, o) \/ recipientId[u] # o
  /\ ChatIdEffect(u, ExistingChatId(u, o))
  /\ selectedChatId' = [selectedChatId EXCEPT ![u] = ExistingChatId(u, o)]
  /\ recipientId' = [recipientId EXCEPT ![u] = o]
  /\ windowCreated' = [windowCreated EXCEPT ![u] = 0]
  /\ finished' = NoFinish
  /\ UNCHANGED <<storeVars, newMessage, isSending, sendVars, cogVars,
                 sendCount, sendLog, submitted>>
  /\ UNCHANGED notChat

\* Home unmounts (logout, or the user leaves for /profile): the cleanup of the
\* message effect calls unsubscribe(); the next mount starts from the initial state
HomeUnmount(u) ==
  /\ sendPc[u] = "idle"
  /\ selectedChatId[u] # NullId \/ recipientId[u] # Null
  /\ selectedChatId' = [selectedChatId EXCEPT ![u] = NullId]
  /\ recipientId' = [recipientId EXCEPT ![u] = Null]
  /\ messages' = [messages EXCEPT ![u] = <<>>]
  /\ newMessage' = [newMessage EXCEPT ![u] = <<>>]
  /\ loading' = [loading EXCEPT ![u] = FALSE]
  /\ subscribed' = [subscribed EXCEPT ![u] = NullId]
  /\ snapshotPending' = [snapshotPending EXCEPT ![u] = FALSE]
  /\ windowCreated' = [windowCreated EXCEPT ![u] = 0]
  /\ finished' = NoFinish
  /\ UNCHANGED <<storeVars, isSending, sendVars, cogVars, sendCount, sendLog, submitted>>
  /\ UNCHANGED notChat

\* ------------------------------------------------------------ chatService

\* querySnapshot.docs.find(doc => doc.data().participants.includes(otherUserId))
\* a lookup that matches the participants in the order of the arguments only
FindExistingChatOrdered(u, o) ==
  LET found == { c \in ChatsOf(u) : chatDocs[c].participants = <<u, o>> }
  IN IF found = {} THEN NullId ELSE CHOOSE c \in found : \A d \in found : c <= d

FindExistingChat(u, o) ==
  LET found == { c \in ChatsOf(u) : Includes(chatDocs[c].participants, o) }
  IN IF found = {} THEN NullId ELSE CHOOSE c \in found : \A d \in found : c <= d

\* UserSearch.handleStartChat: createOrGetChat up to the result of getDocs
CreateOrGetChatQuery(u, o) ==
  /\ o # u
  /\ cogPc[u] = "idle"
  /\ cogCount < MaxStartChat
  /\ cogCount' = cogCount + 1
  /\ IF FindExistingChat(u, o) = NullId
     THEN /\ cogPc' = [cogPc EXCEPT ![u] = "setDoc"]
          /\ cogOther' = [cogOther EXCEPT ![u] = o]
     ELSE UNCHANGED <<cogPc, cogOther>>
  /\ finished' = NoFinish
  /\ UNCHANGED <<storeVars, homeVars, windowVars, sendVars,
                 sendCount, sendLog, submitted, windowCreated>>
  /\ UNCHANGED notChat

\* await setDoc(newChatRef, {participants, lastMessage: null, ...})
CreateOrGetChatSetDoc(u) ==
  /\ cogPc[u] = "setDoc"
  /\ Len(chatDocs) < MaxChats
  /\ chatDocs' = Append(chatDocs, [participants |-> <<u, cogOther[u]>>, lastMessage |-> NullMsg])
  /\ messageDocs' = Append(messageDocs, <<>>)
  /\ cogPc' = [cogPc EXCEPT ![u] = "idle"]
  /\ cogOther' = [cogOther EXCEPT ![u] = Null]
  /\ finished' = NoFinish
  /\ UNCHANGED <<homeVars, windowVars, sendVars, cogCount,
                 sendCount, sendLog, submitted, windowCreated>>
  /\ UNCHANGED notChat

\* setDoc rejects: console.error, rethrow, handleStartChat shows the error
CreateOrGetChatFails(u) ==
  /\ cogPc[u] = "setDoc"
  /\ cogPc' = [cogPc EXCEPT ![u] = "idle"]
  /\ cogOther' = [cogOther EXCEPT ![u] = Null]
  /\ finished' = NoFinish
  /\ UNCHANGED <<storeVars, homeVars, windowVars, sendVars, cogCount,
                 sendCount, sendLog, submitted, windowCreated>>
  /\ UNCHANGED notChat

\* handleStartChat(o) of u when no other createOrGetChat is in flight:
\* createOrGetChat(u, o) from its call to its return; accepted tells whether
\* the store takes the setDoc
CreateOrGetChat(u, o, accepted) ==
  /\ \A v \in Users : cogPc[v] = "idle"
  /\ cogCount < MaxCalls
  /\ cogCount' = cogCount + 1
  /\ LET existingChat == FindExistingChat(u, o) IN
       IF existingChat # NullId
       THEN /\ accepted
            /\ finished' = [result |-> "chatId", user |-> u, other |-> o,
                            id |-> existingChat, created |-> FALSE]
            /\ UNCHANGED storeVars
       ELSE IF accepted
       THEN /\ Len(chatDocs) < MaxChats
            /\ chatDocs' = Append(chatDocs, [participants |-> <<u, o>>, lastMessage |-> NullMsg])
            /\ messageDocs' = Append(messageDocs, <<>>)
            /\ finished' = [result |-> "chatId", user |-> u, other |-> o,
                            id |-> Len(chatDocs) + 1, created |-> TRUE]
       ELSE /\ finished' = [result |-> "thrown", user |-> u, other |-> o]
            /\ UNCHANGED storeVars
  /\ UNCHANGED <<homeVars, windowVars, sendVars, cogPc, cogOther,
                 sendCount, sendLog, submitted, windowCreated>>
  /\ UNCHANGED notChat

ChatNext ==
  \E u \in Users :
    \/ MessageSnapshot(u)
    \/ \E t \in Inputs(u) : SetNewMessage(u, t)
    \/ HandleSendStart(u)
    \/ HandleSendCreateChat(u)
    \/ HandleSendCreateChatFails(u)
    \/ HandleSendAddMessage(u)
    \/ HandleSendAddMessageFails(u)
    \/ HandleSendUpdateChat(u)
    \/ HandleSendUpdateChatFails(u)
    \/ \E c \in ChatIds : HandleChatSelect(u, c)
    \/ \E o \in Users : HandleUserSelect(u, o)

\* the store accepts every write
ReliableNext ==
  \E u \in Users :
    \/ MessageSnapshot(u)
    \/ \E t \in Inputs(u) : SetNewMessage(u, t)
    \/ HandleSendStart(u)
    \/ HandleSendCreateChat(u)
    \/ HandleSendAddMessage(u)
    \/ HandleSendUpdateChat(u)
    \/ \E c \in ChatIds : HandleChatSelect(u, c)
    \/ \E o \in Users : HandleUserSelect(u, o)

\* the chat windows with a third account to pick in the search, and Home
\* unmounting
WindowNext ==
  \/ ChatNext
  \/ \E u \in Users :
       \/ \E o \in Contacts \ Users : HandleUserSelect(u, o)
       \/ HomeUnmount(u)

\* UserSearch.handleStartChat joins in
StartChatNext ==
  \/ ChatNext
  \/ \E u \in Users :
       \/ \E o \in Users : CreateOrGetChatQuery(u, o)
       \/ CreateOrGetChatSetDoc(u)
       \/ CreateOrGetChatFails(u)

\* --------------------------------------------------------------- Sidebar
\* updatedAt is a platform Timestamp {seconds, nanoseconds}, an ISO string
\* (millisecond precision, here its millisecond count) or null while the
\* server timestamp of a local write is pending.
Timestamp(sec, nanos) == [kind |-> "timestamp", seconds |-> sec, nanoseconds |-> nanos]
IsoString(ms) == [kind |-> "iso", ms |-> ms]
NullTime == [kind |-> "null"]

UpdatedAts ==
  { Timestamp(1, 1000000), Timestamp(1, 1500000), Timestamp(1, 3000000),
    IsoString(1002), IsoString(1003), NullTime }

LastMessages ==
  { UndefinedMsg, NullMsg }
  \cup { [tag |-> "object", text |-> <<"a">>, senderId |-> u, read |-> r] :
           u \in Users, r \in BOOLEAN }

\* Timestamp.toDate().getTime(): seconds * 1000 + nanoseconds / 1e6, clipped to an integer
ToDateGetTime(t) == t.seconds * 1000 + (t.nanoseconds \div 1000000)

\* (a.updatedAt?.toDate?.() || new Date(a.updatedAt || 0)).getTime()
GetTime(updatedAt) ==
  IF updatedAt.kind = "timestamp" THEN ToDateGetTime(updatedAt)
  ELSE IF updatedAt.kind = "iso" THEN updatedAt.ms
  ELSE 0

\* the comparator with its operands swapped: timeA.getTime() - timeB.getTime()
CompareChatsAscending(a, b) == GetTime(a.updatedAt) - GetTime(b.updatedAt)

\* the comparator of chatsList.sort: timeB.getTime() - timeA.getTime()
CompareChats(a, b) == GetTime(b.updatedAt) - GetTime(a.updatedAt)

\* Array.prototype.sort is stable: x goes behind every element it does not precede
RECURSIVE InsertChat(_, _)
InsertChat(sorted, x) ==
  IF sorted = <<>> THEN <<x>>
  ELSE IF CompareChats(Head(sorted), x) > 0
       THEN <<x>> \o sorted
       ELSE <<Head(sorted)>> \o InsertChat(Tail(sorted), x)

RECURSIVE SortChats(_)
SortChats(list) ==
  IF list = <<>> THEN <<>>
  ELSE InsertChat(SortChats(SubSeq(list, 1, Len(list) - 1)), list[Len(list)])

\* the badge condition without the test of the sender
BadgeInvisibleIgnoresSender(chat, uid) ==
  \/ chat.lastMessage.tag # "object"
  \/ chat.lastMessage.read

\* invisible={!chat.lastMessage || chat.lastMessage.senderId === currentUser?.uid
\*            || chat.lastMessage.read}
BadgeInvisible(chat, uid) ==
  \/ chat.lastMessage.tag # "object"
  \/ chat.lastMessage.senderId = uid
  \/ chat.lastMessage.read

ChatDocsOf(u, id) ==
  { [id |-> id, participants |-> <<u, o>>, updatedAt |-> t, lastMessage |-> m] :
      o \in Users \ {u}, t \in UpdatedAts, m \in LastMessages }

RECURSIVE QuerySnapshots(_, _)
QuerySnapshots(u, n) ==
  IF n = 0 THEN { <<>> }
  ELSE LET shorter == QuerySnapshots(u, n - 1)
       IN shorter \cup { Append(q, d) : q \in { r \in shorter : Len(r) = n - 1 },
                                        d \in ChatDocsOf(u, n) }

NoProfileSubs == [id \in Contacts |-> 0]
NoRecipientsInfo == [id \in Contacts |-> [tag |-> "undefined"]]

SidebarIdle ==
  /\ querySnapshot = <<>>
  /\ chats = <<>>
  /\ sidebarMounted = FALSE
  /\ chatsDue = FALSE
  /\ profileSubs = NoProfileSubs
  /\ staleSubs = NoProfileSubs
  /\ recipientsInfo = NoRecipientsInfo

\* A signed-in client whose chat query is about to deliver a snapshot.
SidebarInit ==
  /\ currentUser \in Users
  /\ querySnapshot \in QuerySnapshots(currentUser, MaxListed)
  /\ chats = <<>>
  /\ sidebarMounted = TRUE
  /\ chatsDue = TRUE
  /\ profileSubs = NoProfileSubs
  /\ staleSubs = NoProfileSubs
  /\ recipientsInfo = NoRecipientsInfo

\* recipientIds: chatData.participants.find(id => id !== currentUser.uid) of every chat
RecipientIds(snapshot, uid) ==
  { FindRecipient(snapshot[i].participants, uid) : i \in 1..Len(snapshot) } \ {Undefined}

\* for (const id of recipientIds) { const unsub = onSnapshot(userRef, ...) }
OpenProfileSubs(subs, ids) ==
  [id \in Contacts |-> IF id \in ids THEN subs[id] + 1 ELSE subs[id]]

\* onSnapshot(chatsQuery, ...): rebuild, sort, setChats, then a profile listener
\* for every recipient id of the snapshot; what the callback returns is dropped
OnChatsSnapshot ==
  /\ sidebarMounted
  /\ chatsDue
  /\ chats' = SortChats(querySnapshot)
  /\ profileSubs' = OpenProfileSubs(profileSubs, RecipientIds(querySnapshot, currentUser))
  /\ chatsDue' = FALSE
  /\ UNCHANGED <<currentUser, querySnapshot, sidebarMounted, staleSubs, recipientsInfo>>
  /\ UNCHANGED notSidebar

\* the chat documents a mounted Sidebar follows through its life
LiveChatDocs(u, id) ==
  { [id |-> id, participants |-> <<u, o>>, updatedAt |-> t, lastMessage |-> NullMsg] :
      o \in Contacts \ {u}, t \in {IsoString(1002), IsoString(1003)} }

RECURSIVE LiveSnapshots(_, _)
LiveSnapshots(u, n) ==
  IF n = 0 THEN { <<>> }
  ELSE LET shorter == LiveSnapshots(u, n - 1)
       IN shorter \cup { Append(q, d) : q \in { r \in shorter : Len(r) = n - 1 },
                                        d \in LiveChatDocs(u, n) }

OpenSubs == { <<id, k>> : id \in Contacts, k \in 1..MaxProfileSubs }

TotalProfileSubs ==
  Cardinality({ s \in OpenSubs : s[2] <= profileSubs[s[1]] + staleSubs[s[1]] })

\* the Sidebar mounts for user u (ProtectedRoute renders Home): the effect
\* subscribes to the chats of u
SidebarMount(u) ==
  /\ ~sidebarMounted
  /\ currentUser \in {Null, u}
  /\ TotalProfileSubs < MaxProfileSubs
  /\ currentUser' = u
  /\ sidebarMounted' = TRUE
  /\ chatsDue' = TRUE
  /\ querySnapshot' \in LiveSnapshots(u, MaxListed)
  /\ UNCHANGED <<chats, profileSubs, staleSubs, recipientsInfo>>
  /\ UNCHANGED notSidebar

\* a chat of the current user is added or updated in the store
ChatsChanged ==
  /\ sidebarMounted
  /\ ~chatsDue
  /\ TotalProfileSubs < MaxProfileSubs
  /\ querySnapshot' \in LiveSnapshots(currentUser, MaxListed) \ {querySnapshot}
  /\ chatsDue' = TRUE
  /\ UNCHANGED <<currentUser, chats, sidebarMounted, profileSubs, staleSubs, recipientsInfo>>
  /\ UNCHANGED notSidebar

\* a profile listener of the mounted Sidebar fires:
\* setRecipientsInfo(prev => ({...prev, [id]: userDoc.data()}))
ProfileSnapshot(id, isOnline) ==
  /\ sidebarMounted
  /\ profileSubs[id] > 0
  /\ recipientsInfo[id] # [tag |-> "profile", isOnline |-> isOnline]
  /\ recipientsInfo' = [recipientsInfo EXCEPT ![id] = [tag |-> "profile", isOnline |-> isOnline]]
  /\ UNCHANGED <<currentUser, querySnapshot, chats, sidebarMounted, chatsDue, profileSubs,
                 staleSubs>>
  /\ UNCHANGED notSidebar

\* the Sidebar unmounts (logout, or the user leaves Home): the cleanup of the
\* effect calls unsubscribe() of the chat subscription and nothing else; the
\* component state is gone with the component
SidebarUnmount(loggedOut) ==
  /\ sidebarMounted
  /\ sidebarMounted' = FALSE
  /\ chatsDue' = FALSE
  /\ staleSubs' = [id \in Contacts |-> staleSubs[id] + profileSubs[id]]
  /\ profileSubs' = NoProfileSubs
  /\ chats' = <<>>
  /\ recipientsInfo' = NoRecipientsInfo
  /\ currentUser' = IF loggedOut THEN Null ELSE currentUser
  /\ UNCHANGED querySnapshot
  /\ UNCHANGED notSidebar

SidebarLifeNext ==
  \/ \E u \in Users : SidebarMount(u)
  \/ ChatsChanged
  \/ OnChatsSnapshot
  \/ \E id \in Contacts, isOnline \in BOOLEAN : ProfileSnapshot(id, isOnline)
  \/ \E loggedOut \in BOOLEAN : SidebarUnmount(loggedOut)

\* ---------------------------------------------------------------- search
\* String.prototype.toLowerCase
ToLowerCaseChar(ch) == IF ch = "A" THEN "a" ELSE IF ch = "B" THEN "b" ELSE ch

ToLowerCase(s) == [i \in 1..Len(s) |-> ToLowerCaseChar(s[i])]

\* the UTF-16 code unit of a character
CharCode(ch) ==
  CASE ch = " " -> 32 [] ch = "A" -> 65 [] ch = "B" -> 66 [] ch = "a" -> 97 [] ch = "b" -> 98
    [] ch = "uf8ff" -> 63743

\* s < t in the store's string order (code units, a prefix first)
RECURSIVE StringLess(_, _)
StringLess(s, t) ==
  IF t = <<>> THEN FALSE
  ELSE IF s = <<>> THEN TRUE
  ELSE IF CharCode(Head(s)) # CharCode(Head(t)) THEN CharCode(Head(s)) < CharCode(Head(t))
  ELSE StringLess(Tail(s), Tail(t))

StartsAt(s, q, i) == i + Len(q) - 1 <= Len(s) /\ \A k \in 1..Len(q) : s[i + k - 1] = q[k]

\* String.prototype.indexOf: the 0-based index of the first occurrence, -1 if none
IndexOf(s, q) ==
  IF \E i \in 1..(Len(s) + 1) : StartsAt(s, q, i)
  THEN (CHOOSE i \in 1..(Len(s) + 1) :
          StartsAt(s, q, i) /\ \A j \in 1..(i - 1) : ~StartsAt(s, q, j)) - 1
  ELSE -1

\* String.prototype.includes
StringIncludes(s, q) == IndexOf(s, q) >= 0

\* limit(10) of the username query, limit(20) of the fallback query
PrimaryLimit == 10
FallbackLimit == 20

\* the document register() writes: username in lower case, displayName and
\* originalUsername as typed; displayName changes with profile edits; isOnline
\* is written by the presence effect
UserDoc(uid, original, display, online) ==
  [uid |-> uid, username |-> ToLowerCase(original), originalUsername |-> original,
   displayName |-> display, isOnline |-> online]

\* <<username as registered, displayName now>>
Profiles ==
  { << <<"a", "b">>, <<"a", "b">> >>, << <<"A", "b">>, <<"A", "b">> >>,
    << <<"b", "a">>, <<"b", "a">> >>, << <<"b">>, <<"A">> >>,
    << <<"b", "b", "a">>, <<"b", "b", "a">> >>, << <<"a">>, <<"a">> >> }

\* accounts that only fill the collection, in front of the others in id order
FillerIds ==
  << "f01", "f02", "f03", "f04", "f05", "f06", "f07", "f08", "f09", "f10",
     "f11", "f12", "f13", "f14", "f15", "f16", "f17", "f18", "f19" >>

Fillers(n) == [k \in 1..n |-> UserDoc(FillerIds[k], <<"b", "b">>, <<"b", "b">>, FALSE)]

\* three accounts with any profiles, and the same behind 19 others for a few profiles
UserStores ==
  { << UserDoc("u1", p1[1], p1[2], o1), UserDoc("u2", p2[1], p2[2], TRUE),
       UserDoc("u3", p3[1], p3[2], o3) >> :
      p1 \in Profiles, p2 \in Profiles, p3 \in Profiles, o1 \in BOOLEAN, o3 \in BOOLEAN }
  \cup
  { Fillers(Len(FillerIds)) \o
      << UserDoc("u1", p1, p1, o1), UserDoc("u2", p2, p2, TRUE), UserDoc("u3", p3, p3, o3) >> :
      p1 \in { <<"b", "a">>, <<"b", "b", "a">> }, p2 \in { <<"b", "b", "a">>, <<"a", "b">> },
      p3 \in { <<"b", "b", "a">>, <<"b", "a">> }, o1 \in BOOLEAN, o3 \in BOOLEAN }

\* what the user types into the search field
SearchQueries == { <<"a">>, <<"b">>, <<"A", "b">>, <<"b", "a">>, <<" ">> }

Min(a, b) == IF a <= b THEN a ELSE b

\* the documents a range query on username delivers come in username order,
\* equal usernames in document-id order
RECURSIVE InsertByUsername(_, _)
InsertByUsername(sorted, d) ==
  IF sorted = <<>> THEN <<d>>
  ELSE IF StringLess(d.username, Head(sorted).username)
       THEN <<d>> \o sorted
       ELSE <<Head(sorted)>> \o InsertByUsername(Tail(sorted), d)

RECURSIVE OrderedByUsername(_)
OrderedByUsername(docs) ==
  IF docs = <<>> THEN <<>>
  ELSE InsertByUsername(OrderedByUsername(SubSeq(docs, 1, Len(docs) - 1)), docs[Len(docs)])

\* getDocs(query(collection(db, 'users'), where('username', '>=', q), limit(10)))
UsernameQuery(store, q) ==
  LET ordered == OrderedByUsername(SelectSeq(store, LAMBDA d : ~StringLess(d.username, q)))
  IN SubSeq(ordered, 1, Min(Len(ordered), PrimaryLimit))

\* getDocs(query(usersRef, where('username', '>=', q), where('username', '<=', q + '\uf8ff')))
UsernamePrefixQuery(store, q) ==
  OrderedByUsername(SelectSeq(store, LAMBDA d :
    /\ ~StringLess(d.username, q)
    /\ ~StringLess(q \o <<"uf8ff">>, d.username)))

\* the fallback query without its limit
DisplayNameQueryUnlimited(store) == store

\* getDocs(query(collection(db, 'users'), limit(20))): the first documents in id order
DisplayNameQuery(store) == SubSeq(store, 1, Min(Len(store), FallbackLimit))

\* the object handleSearch pushes: username: originalUsername || username, ...
SearchResult(d) ==
  [uid |-> d.uid, username |-> d.originalUsername, displayName |-> d.displayName,
   isOnline |-> d.isOnline]

\* the object the realtime handleSearch pushes: { uid: doc.id, ...userData }
RealtimeResult(d) ==
  [uid |-> d.uid, username |-> d.username, displayName |-> d.displayName,
   isOnline |-> d.isOnline]

MapResults(docs) == [k \in 1..Len(docs) |-> SearchResult(docs[k])]

MapRealtimeResults(docs) == [k \in 1..Len(docs) |-> RealtimeResult(docs[k])]

ResultIds(results) == { results[k].uid : k \in 1..Len(results) }

\* the primary pass without the test against the current user
PrimaryPassWithSelf(snapshot, uid, q) ==
  MapResults(SelectSeq(snapshot, LAMBDA d : StringIncludes(d.username, q)))

\* querySnapshot.forEach: doc.id !== currentUser.uid && username.includes(searchLower)
PrimaryPass(snapshot, uid, q) ==
  MapResults(SelectSeq(snapshot, LAMBDA d : d.uid # uid /\ StringIncludes(d.username, q)))

\* displayNameSnapshot.forEach: doc.id !== currentUser.uid &&
\* (displayName.toLowerCase().includes(searchLower) || username.includes(searchLower)),
\* pushed unless already added
FallbackPass(snapshot, uid, q, results) ==
  results \o MapResults(SelectSeq(snapshot, LAMBDA d :
                /\ d.uid # uid
                /\ \/ StringIncludes(ToLowerCase(d.displayName), q)
                   \/ StringIncludes(d.username, q)
                /\ d.uid \notin ResultIds(results)))

\* aMatch, bMatch: username.toLowerCase().indexOf(searchLower), Infinity if absent;
\* the comparator's value, Infinity - Infinity = NaN counting as 0
SearchCompare(a, b, q) ==
  LET aMatch == IndexOf(ToLowerCase(a.username), q)
      bMatch == IndexOf(ToLowerCase(b.username), q)
  IN IF a.isOnline /\ ~b.isOnline THEN -1
     ELSE IF ~a.isOnline /\ b.isOnline THEN 1
     ELSE IF aMatch < 0 /\ bMatch < 0 THEN 0
     ELSE IF aMatch < 0 THEN 1
     ELSE IF bMatch < 0 THEN -1
     ELSE aMatch - bMatch

\* results.sort(...) is stable: x goes behind every element it does not precede
RECURSIVE InsertResult(_, _, _)
InsertResult(sorted, x, q) ==
  IF sorted = <<>> THEN <<x>>
  ELSE IF SearchCompare(Head(sorted), x, q) > 0
       THEN <<x>> \o sorted
       ELSE <<Head(sorted)>> \o InsertResult(Tail(sorted), x, q)

RECURSIVE SortResults(_, _)
SortResults(list, q) ==
  IF list = <<>> THEN <<>>
  ELSE InsertResult(SortResults(SubSeq(list, 1, Len(list) - 1), q), list[Len(list)], q)

SearchIdle ==
  /\ userDocs = <<>>
  /\ searchQuery = <<>>
  /\ searchResults = <<>>
  /\ searchBy = "none"
  /\ searchPrimary = <<>>
  /\ searchArrived = <<>>
  /\ searchFallback = FALSE

\* a signed-in client in front of an empty search field
SearchInit ==
  /\ currentUser \in Users
  /\ userDocs \in UserStores
  /\ searchQuery = <<>>
  /\ searchResults = <<>>
  /\ searchBy = "none"
  /\ searchPrimary = <<>>
  /\ searchArrived = <<>>
  /\ searchFallback = FALSE

\* Sidebar.handleSearch with getDocs: primary pass, fallback pass, ranking
SidebarHandleSearch(text) ==
  /\ Trim(text) # <<>>
  /\ currentUser # Null
  /\ LET searchLower == ToLowerCase(text)
         primary == PrimaryPass(UsernameQuery(userDocs, searchLower), currentUser, searchLower)
         results == IF Len(primary) = 0
                    THEN FallbackPass(DisplayNameQuery(userDocs), currentUser, searchLower,
                                      primary)
                    ELSE primary
     IN /\ searchPrimary' = primary
        /\ searchFallback' = (Len(primary) = 0)
        /\ searchArrived' = results
        /\ searchResults' = SortResults(results, searchLower)
  /\ searchQuery' = text
  /\ searchBy' = "sidebar"
  /\ UNCHANGED <<currentUser, userDocs>>
  /\ UNCHANGED notSearch

\* Sidebar.handleSearch with onSnapshot, and the first snapshot of its query
RealtimeHandleSearch(text) ==
  /\ Trim(text) # <<>>
  /\ LET normalizedQuery == ToLowerCase(text)
         snapshot == UsernameQuery(userDocs, normalizedQuery)
         results == MapRealtimeResults(SelectSeq(snapshot, LAMBDA d :
                      d.uid # currentUser /\ StringIncludes(d.username, normalizedQuery)))
     IN /\ searchPrimary' = results
        /\ searchArrived' = results
        /\ searchResults' = results
  /\ searchFallback' = FALSE
  /\ searchQuery' = text
  /\ searchBy' = "realtime"
  /\ UNCHANGED <<currentUser, userDocs>>
  /\ UNCHANGED notSearch

\* UserSearch.handleSearch: searchUsersByUsername, then the filter on the current user
UserSearchHandleSearch(text) ==
  /\ Trim(text) # <<>>
  /\ LET users_ == UsernamePrefixQuery(userDocs, ToLowerCase(text))
         results == MapRealtimeResults(SelectSeq(users_, LAMBDA d : d.uid # currentUser))
     IN /\ searchPrimary' = results
        /\ searchArrived' = results
        /\ searchResults' = results
  /\ searchFallback' = FALSE
  /\ searchQuery' = text
  /\ searchBy' = "userSearch"
  /\ UNCHANGED <<currentUser, userDocs>>
  /\ UNCHANGED notSearch

SearchNext ==
  \E text \in SearchQueries :
    \/ SidebarHandleSearch(text)
    \/ RealtimeHandleSearch(text)
    \/ UserSearchHandleSearch(text)

\* -------------------------------------------------------- date separators
SecondsPerDay == 24 * 60 * 60
MsPerDay == SecondsPerDay * 1000

\* new Date() of the optimistic entry
DateObject(ms) == [kind |-> "date", ms |-> ms]

\* timestamp: serverTimestamp() of a write the server has not confirmed: the
\* snapshot holds it behind the confirmed messages and data.timestamp is null;
\* sentAt is the client's time of the write
PendingTimestamp(ms) == [kind |-> "null", sentAt |-> ms]

\* server timestamps: the last second of a day, the first of the next, an hour
\* later, and the first second of the day after
ServerTimestamps ==
  { Timestamp(SecondsPerDay - 1, 0), Timestamp(SecondsPerDay, 0),
    Timestamp(SecondsPerDay + 3600, 500000), Timestamp(2 * SecondsPerDay, 0) }

\* the instant a message was sent at, in milliseconds
SentAt(t) ==
  IF t.kind = "timestamp" THEN ToDateGetTime(t)
  ELSE IF t.kind = "date" THEN t.ms
  ELSE t.sentAt

\* confirmed messages by timestamp ascending (orderBy('timestamp', 'asc'))
RECURSIVE ConfirmedLists(_)
ConfirmedLists(n) ==
  IF n = 0 THEN { <<>> }
  ELSE LET shorter == ConfirmedLists(n - 1)
       IN shorter \cup
          { Append(l, t) : l \in { r \in shorter : Len(r) = n - 1 }, t \in ServerTimestamps }

Ascending(l) == \A i \in 1..(Len(l) - 1) : SentAt(l[i]) <= SentAt(l[i + 1])

\* what the window may hold: the confirmed messages, then a message of the
\* user whose server timestamp is pending, then an optimistic entry
MessageLists ==
  { l \o pending \o optimistic :
      l \in { c \in ConfirmedLists(MaxShown) : Ascending(c) },
      pending \in { <<>>, << PendingTimestamp(2 * MsPerDay + 1000) >> },
      optimistic \in { <<>>, << DateObject(2 * MsPerDay + 2000) >> } }

\* message.timestamp?.toDate?.() || new Date(message.timestamp), as getTime()
ResolveDate(t) ==
  IF t.kind = "timestamp" THEN ToDateGetTime(t)
  ELSE IF t.kind = "date" THEN t.ms
  ELSE 0

\* date-fns isSameDay
IsSameDay(a, b) == (a \div MsPerDay) = (b \div MsPerDay)

\* shouldShowDateSeparator(message, index), index 0-based
ShouldShowDateSeparator(list, index) ==
  IF index = 0 THEN TRUE
  ELSE ~IsSameDay(ResolveDate(list[index + 1]), ResolveDate(list[index]))

DateIdle ==
  /\ datedMessages = <<>>
  /\ separators = <<>>

\* a window whose message list is about to be rendered
DateInit ==
  /\ datedMessages \in MessageLists
  /\ separators = <<>>

\* messages.map((message, index) => shouldShowDateSeparator(message, index) && ...)
RenderMessages ==
  /\ datedMessages # <<>>
  /\ separators = <<>>
  /\ separators' = [i \in 1..Len(datedMessages) |-> ShouldShowDateSeparator(datedMessages, i - 1)]
  /\ UNCHANGED datedMessages
  /\ UNCHANGED notDate

\* ----------------------------------------------------- recipient profile
\* the chats that the windows are given: participants by chat id
WindowChats == <<  <<"u1", "u2">>, <<"u1", "u3">>, <<"u2", "u3">>, <<"u2", "u1">>  >>

\* what Home passes to the ChatWindow of u once a handler has run: a chat of u
\* with its recipient (handleChatSelect, handleUserSelect with a chat found), or
\* a recipient with no chat (handleUserSelect)
WindowProps(u) ==
  { <<c, FindRecipient(WindowChats[c], u)>> :
      c \in { d \in 1..Len(WindowChats) : Includes(WindowChats[d], u) } }
  \cup { <<NullId, r>> : r \in Contacts \ {u} }

ProfileIdle ==
  /\ chatId = [u \in Users |-> NullId]
  /\ propRecipientId = [u \in Users |-> Null]
  /\ recipientProfile = [u \in Users |-> Null]
  /\ profileReads = [u \in Users |-> {}]

\* the ChatWindow of u renders with new props. The effect of [chatId, currentUser]
\* runs when chatId changed: setMessages([]); setRecipientProfile(null). The
\* effect of [recipientId] runs when recipientId changed: with a recipient it
\* calls getDoc(doc(db, 'users', recipientId))
SetProps(u, c, r) ==
  /\ <<c, r>> \in WindowProps(u)
  /\ <<c, r>> # <<chatId[u], propRecipientId[u]>>
  /\ chatId' = [chatId EXCEPT ![u] = c]
  /\ propRecipientId' = [propRecipientId EXCEPT ![u] = r]
  /\ recipientProfile' = [recipientProfile EXCEPT ![u] = IF c # chatId[u] THEN Null ELSE @]
  /\ profileReads' = [profileReads EXCEPT ![u] =
                        IF r # propRecipientId[u] /\ r # Null THEN @ \cup {r} ELSE @]
  /\ UNCHANGED notProfile

\* a getDoc of fetchRecipientProfile resolves:
\* if (userDoc.exists()) setRecipientProfile(userDoc.data())
FetchRecipientProfile(u, r) ==
  /\ r \in profileReads[u]
  /\ profileReads' = [profileReads EXCEPT ![u] = @ \ {r}]
  /\ recipientProfile' = [recipientProfile EXCEPT ![u] = r]
  /\ UNCHANGED <<chatId, propRecipientId>>
  /\ UNCHANGED notProfile

ProfileNext ==
  \E u \in Users :
    \/ \E c \in 0..Len(WindowChats), r \in Contacts : SetProps(u, c, r)
    \/ \E r \in Contacts : FetchRecipientProfile(u, r)

\* ---------------------------------------------------------- profile edits
\* The documents of the users collection are keyed by the uid of the account;
\* register writes users/<uid> with username and displayName taken from the
\* name the account registered with.
RegisteredName == [u \in Contacts |->
                     IF u = "u1" THEN "ann" ELSE IF u = "u2" THEN "bob" ELSE "cy"]
\* what a user may type into the display-name field: free text, which may
\* spell the document id of another account
DisplayNames == {"ann", "zoe", "u2"}
\* the URL of an uploaded avatar; '' where the account has none
NoPhoto == ""
PhotoURLs == {"p1", "p2"}

RegisteredDoc(u) ==
  [username |-> RegisteredName[u], displayName |-> RegisteredName[u],
   photoURL |-> NoPhoto, updatedAt |-> 0]

NoEdit == [n |-> 0, user |-> Null, op |-> "none"]

EditIdle ==
  /\ profileDocs = [u \in Contacts |-> RegisteredDoc(u)]
  /\ authProfile = [u \in Users |-> RegisteredName[u]]
  /\ profileEdit = NoEdit

EditStep(u, op) ==
  /\ profileEdit.n < MaxEdits
  /\ profileEdit' = [n |-> profileEdit.n + 1, user |-> u, op |-> op]

\* updateDoc(doc(db, 'users', id), fields): rejects where the document is absent
\* or the store refuses, and then writes nothing
UpdateDoc(id, fields, accepted) ==
  IF accepted /\ id \in DOMAIN profileDocs
    THEN profileDocs' = [profileDocs EXCEPT ![id] =
                           [f \in DOMAIN @ |-> IF f \in DOMAIN fields THEN fields[f] ELSE @[f]]]
    ELSE UNCHANGED profileDocs

\* the fields of a profile write: photoURL is spread in only where it is truthy
ProfileFields(base, photoURL) ==
  IF photoURL # NoPhoto THEN base @@ [photoURL |-> photoURL] ELSE base

\* AuthContext.updateUserProfile(displayName, photoURL) of user u (Profile:
\* handleSubmit, handleAvatarUpdate): updateProfile on the auth account, then
\* setDoc(doc(db, 'users', currentUser.uid), {...}, {merge: true})
AuthUpdateUserProfile(u, displayName, photoURL, accepted) ==
  /\ EditStep(u, "authContext")
  /\ authProfile' = [authProfile EXCEPT ![u] = displayName]
  /\ UpdateDoc(u, ProfileFields([displayName |-> displayName,
                                 updatedAt |-> profileEdit.n + 1], photoURL), accepted)
  /\ UNCHANGED notEdit

\* updateUserProfile(userId, displayName, photoURL, bio) as the avatar editor
\* that passes the uid calls it:
\* updateUserProfile(currentUser.uid, currentUser.displayName || '', publicUrl)
ServiceUpdateUserProfile(u, photoURL, accepted) ==
  /\ EditStep(u, "userService")
  /\ UpdateDoc(u, ProfileFields([displayName |-> authProfile[u],
                                 updatedAt |-> profileEdit.n + 1], photoURL), accepted)
  /\ UNCHANGED authProfile
  /\ UNCHANGED notEdit

\* lib/userService updateUserProfile(displayName, photoURL) as the avatar editor
\* calls it: updateUserProfile(currentUser.displayName || '', publicUrl). The
\* document written is doc(db, 'users', displayName).
LibUpdateUserProfile(u, photoURL, accepted) ==
  /\ EditStep(u, "libUserService")
  /\ UpdateDoc(authProfile[u], ProfileFields([updatedAt |-> profileEdit.n + 1], photoURL),
               accepted)
  /\ UNCHANGED authProfile
  /\ UNCHANGED notEdit

EditNext ==
  \E u \in Users, accepted \in BOOLEAN :
    \/ \E d \in DisplayNames, p \in PhotoURLs \cup {NoPhoto} :
         AuthUpdateUserProfile(u, d, p, accepted)
    \/ \E p \in PhotoURLs : ServiceUpdateUserProfile(u, p, accepted)
    \/ \E p \in PhotoURLs : LibUpdateUserProfile(u, p, accepted)

\* -------------------------------------------------------------- deletion
\* The account that deletes is ClientUser's; its chats are chat 1 with u2 and
\* chat 2 with u3.
StoredChatIds == {1, 2}
MessageIds == 1..MaxStored
NoTasks == [c \in StoredChatIds |-> "none"]
NoPending == [c \in StoredChatIds |-> {}]

DeleteIdle ==
  /\ storedChats = {}
  /\ storedMessages = NoPending
  /\ storedUsers = {}
  /\ accounts = {}
  /\ issued = 0
  /\ dcPc = "idle"
  /\ dcChatId = NullId
  /\ dcPending = {}
  /\ daPc = "idle"
  /\ daTask = NoTasks
  /\ daPending = NoPending

\* both chats exist, the first holds one message; the user is signed in
DeleteInit ==
  /\ storedChats = StoredChatIds
  /\ storedMessages = [c \in StoredChatIds |-> IF c = 1 THEN {1} ELSE {}]
  /\ storedUsers = Contacts
  /\ accounts = Contacts
  /\ issued = 1
  /\ dcPc = "idle"
  /\ dcChatId = NullId
  /\ dcPending = {}
  /\ daPc = "idle"
  /\ daTask = NoTasks
  /\ daPending = NoPending

\* the other participant's handleSend: addDoc(collection(db, `chats/${id}/messages`), ...)
\* from a window that has chat c open; the store takes a message under any path
AddMessage(c) ==
  /\ issued < MaxStored
  /\ issued' = issued + 1
  /\ storedMessages' = [storedMessages EXCEPT ![c] = @ \cup {issued + 1}]
  /\ UNCHANGED <<storedChats, storedUsers, accounts, dcPc, dcChatId, dcPending, daPc, daTask,
                 daPending>>
  /\ UNCHANGED notDelete

\* deleteChat(chatId) up to the deleteDoc calls: getDocs(messagesRef), then
\* messagesSnapshot.docs.map(doc => deleteDoc(doc.ref))
DeleteChatStart(c) ==
  /\ dcPc = "idle"
  /\ dcChatId' = c
  /\ dcPending' = storedMessages[c]
  /\ dcPc' = "messages"
  /\ UNCHANGED <<storedChats, storedMessages, storedUsers, accounts, issued, daPc, daTask,
                 daPending>>
  /\ UNCHANGED notDelete

\* getDocs fails: catch, throw
DeleteChatStartFails(c) ==
  /\ dcPc = "idle"
  /\ dcChatId' = c
  /\ dcPc' = "thrown"
  /\ UNCHANGED <<storedChats, storedMessages, storedUsers, accounts, issued, dcPending, daPc,
                 daTask, daPending>>
  /\ UNCHANGED notDelete

\* one deleteDoc(doc.ref) of deletePromises succeeds; the calls are all issued, so
\* they go on after Promise.all has rejected
DeleteChatMessage(m) ==
  /\ dcPc \in {"messages", "thrown"}
  /\ m \in dcPending
  /\ dcPending' = dcPending \ {m}
  /\ storedMessages' = [storedMessages EXCEPT ![dcChatId] = @ \ {m}]
  /\ UNCHANGED <<storedChats, storedUsers, accounts, issued, dcPc, dcChatId, daPc, daTask,
                 daPending>>
  /\ UNCHANGED notDelete

\* one deleteDoc(doc.ref) fails: Promise.all rejects, catch, throw
DeleteChatMessageFails(m) ==
  /\ dcPc = "messages"
  /\ m \in dcPending
  /\ dcPending' = dcPending \ {m}
  /\ dcPc' = "thrown"
  /\ UNCHANGED <<storedChats, storedMessages, storedUsers, accounts, issued, dcChatId, daPc,
                 daTask, daPending>>
  /\ UNCHANGED notDelete

\* await Promise.all(deletePromises) is through: deleteDoc(doc(db, 'chats', chatId)),
\* return true
DeleteChatDoc ==
  /\ dcPc = "messages"
  /\ dcPending = {}
  /\ storedChats' = storedChats \ {dcChatId}
  /\ dcPc' = "true"
  /\ UNCHANGED <<storedMessages, storedUsers, accounts, issued, dcChatId, dcPending, daPc,
                 daTask, daPending>>
  /\ UNCHANGED notDelete

\* deleteDoc of the chat fails: catch, throw
DeleteChatDocFails ==
  /\ dcPc = "messages"
  /\ dcPending = {}
  /\ dcPc' = "thrown"
  /\ UNCHANGED <<storedChats, storedMessages, storedUsers, accounts, issued, dcChatId,
                 dcPending, daPc, daTask, daPending>>
  /\ UNCHANGED notDelete

\* deleteAccount(password) when reauthenticate(password) returns false:
\* throw new Error("Invalid password")
DeleteAccountInvalidPassword ==
  /\ daPc = "idle"
  /\ daPc' = "thrown"
  /\ UNCHANGED <<storedChats, storedMessages, storedUsers, accounts, issued, dcPc, dcChatId,
                 dcPending, daTask, daPending>>
  /\ UNCHANGED notDelete

\* reauthenticate(password) returns true; getDocs(chatsQuery) delivers the chats
\* of the user, and a task is started for each
DeleteAccountQuery ==
  /\ daPc = "idle"
  /\ daPc' = "chats"
  /\ daTask' = [c \in StoredChatIds |-> IF c \in storedChats THEN "read" ELSE "none"]
  /\ UNCHANGED <<storedChats, storedMessages, storedUsers, accounts, issued, dcPc, dcChatId,
                 dcPending, daPending>>
  /\ UNCHANGED notDelete

\* the task of chat c: getDocs(collection(db, `chats/${chatDoc.id}/messages`)), then
\* a deleteDoc for every message of the snapshot
DeleteAccountReadMessages(c) ==
  /\ daPc = "chats"
  /\ daTask[c] = "read"
  /\ daTask' = [daTask EXCEPT ![c] = "messages"]
  /\ daPending' = [daPending EXCEPT ![c] = storedMessages[c]]
  /\ UNCHANGED <<storedChats, storedMessages, storedUsers, accounts, issued, dcPc, dcChatId,
                 dcPending, daPc>>
  /\ UNCHANGED notDelete

\* await deleteDoc(doc(db, `chats/${chatDoc.id}/messages`, messageDoc.id))
DeleteAccountMessage(c, m) ==
  /\ daPc = "chats"
  /\ daTask[c] = "messages"
  /\ m \in daPending[c]
  /\ daPending' = [daPending EXCEPT ![c] = @ \ {m}]
  /\ storedMessages' = [storedMessages EXCEPT ![c] = @ \ {m}]
  /\ UNCHANGED <<storedChats, storedUsers, accounts, issued, dcPc, dcChatId, dcPending, daPc,
                 daTask>>
  /\ UNCHANGED notDelete

\* await Promise.all(messagePromises) is through:
\* await deleteDoc(doc(db, 'chats', chatDoc.id))
DeleteAccountChat(c) ==
  /\ daPc = "chats"
  /\ daTask[c] = "messages"
  /\ daPending[c] = {}
  /\ storedChats' = storedChats \ {c}
  /\ daTask' = [daTask EXCEPT ![c] = "done"]
  /\ UNCHANGED <<storedMessages, storedUsers, accounts, issued, dcPc, dcChatId, dcPending,
                 daPc, daPending>>
  /\ UNCHANGED notDelete

\* await Promise.all(deletionPromises) is through:
\* await deleteDoc(doc(db, 'users', currentUser.uid))
DeleteAccountUserDoc ==
  /\ daPc = "chats"
  /\ \A c \in StoredChatIds : daTask[c] \in {"none", "done"}
  /\ storedUsers' = storedUsers \ {ClientUser}
  /\ daPc' = "user"
  /\ UNCHANGED <<storedChats, storedMessages, accounts, issued, dcPc, dcChatId, dcPending,
                 daTask, daPending>>
  /\ UNCHANGED notDelete

\* await deleteUser(currentUser)
DeleteAccountDeleteUser ==
  /\ daPc = "user"
  /\ accounts' = accounts \ {ClientUser}
  /\ daPc' = "done"
  /\ UNCHANGED <<storedChats, storedMessages, storedUsers, issued, dcPc, dcChatId, dcPending,
                 daTask, daPending>>
  /\ UNCHANGED notDelete

\* a call of the try block fails: catch, throw new Error("Failed to delete account...");
\* the tasks in flight go on
DeleteAccountFails ==
  /\ daPc \in {"chats", "user"}
  /\ daPc' = "thrown"
  /\ UNCHANGED <<storedChats, storedMessages, storedUsers, accounts, issued, dcPc, dcChatId,
                 dcPending, daTask, daPending>>
  /\ UNCHANGED notDelete

\* -------------------------------------------------------------- presence
NoEvent == [type |-> "none"]

PresenceInit ==
  /\ authCurrentUser = Null
  /\ users = [u \in Users |-> [isOnline |-> FALSE, lastSeen |-> 0]]
  /\ now = 0
  /\ tabOpen = TRUE
  /\ visible = TRUE
  /\ lastHeartbeat = [u \in Users |-> 0]
  /\ presenceEvent = NoEvent
  /\ unhandled = {}

\* setOnlineStatus that writes isOnline only, never lastSeen
SetOnlineStatusNoLastSeen(docs, authUser, online, accepted) ==
  IF authUser = Null \/ ~accepted THEN docs
  ELSE [docs EXCEPT ![authUser].isOnline = online]

\* setOnlineStatus(online) with auth.currentUser = authUser, on the documents docs;
\* accepted tells whether the store takes the write
SetOnlineStatus(docs, authUser, online, accepted) ==
  IF authUser = Null \/ ~accepted THEN docs
  ELSE IF online THEN [docs EXCEPT ![authUser].isOnline = TRUE]
  ELSE [docs EXCEPT ![authUser] = [isOnline |-> FALSE, lastSeen |-> now]]

\* setOnlineStatus is async and awaits updateDoc; every caller drops the promise
\* it returns, so a write the store refuses is a rejection nobody handles
SetOnlineStatusRejected(authUser, accepted) ==
  unhandled' = IF authUser # Null /\ ~accepted THEN unhandled \cup {"setOnlineStatus"}
               ELSE unhandled

\* onAuthStateChanged(user) after login: setCurrentUser(user); the presence effect
\* of the signed-out render is cleaned up and the effect runs for user
SessionStart(u, accepted) ==
  /\ tabOpen
  /\ currentUser = Null
  /\ authCurrentUser \in {Null, u}
  /\ authCurrentUser' = u
  /\ currentUser' = u
  /\ users' = SetOnlineStatus(SetOnlineStatus(users, u, FALSE, accepted), u, TRUE, accepted)
  /\ lastHeartbeat' = [lastHeartbeat EXCEPT ![u] = now]
  /\ presenceEvent' = [type |-> "sessionStart", user |-> u, accepted |-> accepted, at |-> now]
  /\ SetOnlineStatusRejected(u, accepted)
  /\ UNCHANGED <<now, tabOpen, visible>>
  /\ UNCHANGED notPresence

\* logout(): signOut(auth), then onAuthStateChanged(null) and the effect cleanup
Logout ==
  /\ tabOpen
  /\ currentUser # Null
  /\ authCurrentUser' = Null
  /\ currentUser' = Null
  /\ \E accepted \in BOOLEAN : users' = SetOnlineStatus(users, Null, FALSE, accepted)
  /\ presenceEvent' = [type |-> "logout", user |-> currentUser, accepted |-> TRUE, at |-> now]
  /\ UNCHANGED <<now, tabOpen, visible, lastHeartbeat, unhandled>>
  /\ UNCHANGED notPresence

\* setInterval(() => setOnlineStatus(true), 60000)
Heartbeat(accepted) ==
  /\ tabOpen
  /\ currentUser # Null
  /\ users' = SetOnlineStatus(users, authCurrentUser, TRUE, accepted)
  /\ lastHeartbeat' = [lastHeartbeat EXCEPT ![currentUser] = now]
  /\ presenceEvent' = [type |-> "heartbeat", user |-> currentUser, accepted |-> accepted, at |-> now]
  /\ SetOnlineStatusRejected(authCurrentUser, accepted)
  /\ UNCHANGED <<authCurrentUser, currentUser, now, tabOpen, visible>>
  /\ UNCHANGED notPresence

\* visibilitychange: if (document.visibilityState === 'visible') setOnlineStatus(true)
VisibilityChange(accepted) ==
  /\ tabOpen
  /\ visible' = ~visible
  /\ IF currentUser # Null /\ visible'
     THEN /\ users' = SetOnlineStatus(users, authCurrentUser, TRUE, accepted)
          /\ lastHeartbeat' = [lastHeartbeat EXCEPT ![currentUser] = now]
          /\ presenceEvent' = [type |-> "visible", user |-> currentUser,
                               accepted |-> accepted, at |-> now]
          /\ SetOnlineStatusRejected(authCurrentUser, accepted)
     ELSE /\ accepted
          /\ presenceEvent' = NoEvent
          /\ UNCHANGED <<users, lastHeartbeat, unhandled>>
  /\ UNCHANGED <<authCurrentUser, currentUser, now, tabOpen>>
  /\ UNCHANGED notPresence

\* beforeunload: setOnlineStatus(false); the page and its timers are gone, the
\* persisted session stays
BeforeUnload(accepted) ==
  /\ tabOpen
  /\ currentUser # Null
  /\ users' = SetOnlineStatus(users, authCurrentUser, FALSE, accepted)
  /\ tabOpen' = FALSE
  /\ currentUser' = Null
  /\ presenceEvent' = [type |-> "unload", user |-> currentUser, accepted |-> accepted, at |-> now]
  /\ SetOnlineStatusRejected(authCurrentUser, accepted)
  /\ UNCHANGED <<authCurrentUser, now, visible, lastHeartbeat>>
  /\ UNCHANGED notPresence

\* the page is loaded again
PageLoad ==
  /\ ~tabOpen
  /\ tabOpen' = TRUE
  /\ visible' = TRUE
  /\ presenceEvent' = NoEvent
  /\ UNCHANGED <<authCurrentUser, currentUser, users, now, lastHeartbeat, unhandled>>
  /\ UNCHANGED notPresence

ClockTick ==
  /\ now < MaxTime
  /\ now' = now + 1
  /\ presenceEvent' = NoEvent
  /\ UNCHANGED <<authCurrentUser, currentUser, users, tabOpen, visible, lastHeartbeat, unhandled>>
  /\ UNCHANGED notPresence

PresenceNext ==
  \/ \E u \in Users, accepted \in BOOLEAN : SessionStart(u, accepted)
  \/ Logout
  \/ \E accepted \in BOOLEAN : Heartbeat(accepted)
  \/ \E accepted \in BOOLEAN : VisibilityChange(accepted)
  \/ \E accepted \in BOOLEAN : BeforeUnload(accepted)
  \/ PageLoad
  \/ ClockTick

\* ------------------------------------------------------- specifications
Init ==
  ChatInit /\ currentUser = Null /\ SidebarIdle /\ PresenceInit /\ SearchIdle /\ DateIdle
  /\ DeleteIdle /\ ProfileIdle /\ EditIdle

Next == ChatNext

Spec == Init /\ [][Next]_vars

StartChatSpec == Init /\ [][StartChatNext]_vars

ReliableSpec == Init /\ [][ReliableNext]_vars

\* the store accepts every write, and a snapshot scheduled for an open
\* listener is delivered: the client's event loop runs the onSnapshot callback
ReadReceiptSpec ==
  Init /\ [][ReliableNext]_vars /\ \A u \in Users : WF_vars(MessageSnapshot(u))

WindowSpec == Init /\ [][WindowNext]_vars

ProfileSpec == Init /\ [][ProfileNext]_vars

\* the profile edits of every user over the registered profile documents
EditSpec == Init /\ [][EditNext]_vars

\* the chat windows with the sends that handleSend turns down, and typing
\* while a send is in flight
SendNext ==
  \/ ChatNext
  \/ \E u \in Users :
       \/ HandleSendIgnored(u)
       \/ \E t \in Inputs(u) : SetNewMessageWhileSending(u, t)

SendSpec == Init /\ [][SendNext]_vars

\* createOrGetChat called again and again, each call after the one before it
\* has returned
SequentialNext ==
  \E u \in Users : \E o \in Contacts \ {u} : \E accepted \in BOOLEAN :
    CreateOrGetChat(u, o, accepted)

SequentialSpec == Init /\ [][SequentialNext]_vars

\* the chat windows over a store that may refuse any write, the read receipts
\* included
FailingStoreNext == ChatNext \/ \E u \in Users : ReadReceiptRejected(u)

FailingStoreSpec == Init /\ [][FailingStoreNext]_vars

\* the client of one user: its chat window and its Sidebar, over a store that
\* accepts every write
ClientNext ==
  \/ MessageSnapshot(ClientUser)
  \/ \E t \in Inputs(ClientUser) : SetNewMessage(ClientUser, t)
  \/ HandleSendStart(ClientUser)
  \/ HandleSendCreateChat(ClientUser)
  \/ HandleSendAddMessage(ClientUser)
  \/ HandleSendUpdateChat(ClientUser)
  \/ \E c \in ChatIds : HandleChatSelect(ClientUser, c)
  \/ \E o \in Users \ {ClientUser} : HandleUserSelect(ClientUser, o)
  \/ SidebarMount(ClientUser)
  \/ ChatsChanged
  \/ OnChatsSnapshot

ClientSpec == Init /\ [][ClientNext]_vars

SidebarSpecInit == ChatInit /\ SidebarInit /\ PresenceInit /\ SearchIdle /\ DateIdle
  /\ DeleteIdle /\ ProfileIdle /\ EditIdle

SidebarNext == OnChatsSnapshot

SidebarSpec == SidebarSpecInit /\ [][SidebarNext]_vars

SidebarLifeSpec == Init /\ [][SidebarLifeNext]_vars

PresenceSpec == Init /\ [][PresenceNext]_vars

SearchSpecInit == ChatInit /\ SidebarIdle /\ PresenceInit /\ SearchInit /\ DateIdle
  /\ DeleteIdle /\ ProfileIdle /\ EditIdle

SearchSpec == SearchSpecInit /\ [][SearchNext]_vars

DeleteSpecInit ==
  ChatInit /\ currentUser = ClientUser /\ SidebarIdle /\ PresenceInit /\ SearchIdle /\ DateIdle
  /\ DeleteInit /\ ProfileIdle /\ EditIdle

\* deleteChat, while the other participants go on sending
DeleteChatNext ==
  \/ \E c \in StoredChatIds :
       \/ AddMessage(c)
       \/ DeleteChatStart(c)
       \/ DeleteChatStartFails(c)
  \/ \E m \in MessageIds :
       \/ DeleteChatMessage(m)
       \/ DeleteChatMessageFails(m)
  \/ DeleteChatDoc
  \/ DeleteChatDocFails

DeleteChatSpec == DeleteSpecInit /\ [][DeleteChatNext]_vars

\* deleteAccount, while the other participants go on sending
DeleteAccountNext ==
  \/ \E c \in StoredChatIds :
       \/ AddMessage(c)
       \/ DeleteAccountReadMessages(c)
       \/ DeleteAccountChat(c)
       \/ \E m \in MessageIds : DeleteAccountMessage(c, m)
  \/ DeleteAccountInvalidPassword
  \/ DeleteAccountQuery
  \/ DeleteAccountUserDoc
  \/ DeleteAccountDeleteUser
  \/ DeleteAccountFails

DeleteAccountSpec == DeleteSpecInit /\ [][DeleteAccountNext]_vars

DateSpecInit ==
  ChatInit /\ currentUser = Null /\ SidebarIdle /\ PresenceInit /\ SearchIdle /\ DateInit
  /\ DeleteIdle /\ ProfileIdle /\ EditIdle

DateNext == RenderMessages

DateSpec == DateSpecInit /\ [][DateNext]_vars


\* ================================================================ claims

IsPrefix(s, t) == Len(s) <= Len(t) /\ \A i \in 1..Len(s) : s[i] = t[i]

\* the two users of a chat document, as a set
Pair(c) == { chatDocs[c].participants[i] : i \in 1..Len(chatDocs[c].participants) }

\* how often the document ref shows in the visible list of u
Shown(u, ref) ==
  Cardinality({ i \in 1..Len(messages[u]) : messages[u][i].id = <<"doc", ref[1], ref[2]>> })

TempShown(u, temp) == \E i \in 1..Len(messages[u]) : messages[u][i].id = temp

AllIdle == \A u \in Users : sendPc[u] = "idle"

\* C1: at most one chat document exists per unordered pair of participants,
\* whatever the interleaving of createOrGetChat, Home.handleUserSelect and the
\* first send of a chat window.
C1_OneChatPerPair ==
  \A c, d \in ChatIds : c # d => Pair(c) # Pair(d)

\* C2: a chat window that was opened with no chat id and whose first send
\* created a chat sends its second message into that chat: it creates no
\* second chat document.
C2_SecondSendReusesChat ==
  \A u \in Users : windowCreated[u] <= 1

\* C3: handleSend with no chat id and a recipient creates exactly one chat
\* document, and only then writes the message; the message document is
\* written before the chat's lastMessage/updatedAt update.
C3_ChatThenMessageThenLastMessage ==
  /\ \A u \in Users : sendPc[u] # "idle" =>
       /\ \/ IsPrefix(sendLog[u], <<"noChatId", "chat", "message">>)
          \/ IsPrefix(sendLog[u], <<"chatId", "message">>)
       /\ sendLog[u][1] = "noChatId" /\ sendPc[u] \in {"addMessage", "updateChat"} =>
            /\ Len(sendLog[u]) >= 2 /\ sendLog[u][2] = "chat"
            /\ activeChatId[u] \in ChatIds
            /\ chatDocs[activeChatId[u]].participants = <<u, sendRecipient[u]>>
       /\ sendPc[u] = "updateChat" =>
            /\ sendLog[u][Len(sendLog[u])] = "message"
            /\ messageRef[u][1] = activeChatId[u]
            /\ messageRef[u][2] \in 1..Len(messageDocs[activeChatId[u]])
            /\ messageDocs[activeChatId[u]][messageRef[u][2]].senderId = u
            /\ messageDocs[activeChatId[u]][messageRef[u][2]].text = messageText[u]
  /\ finished.result = "ok" =>
       finished.log \in { <<"noChatId", "chat", "message", "lastMessage">>,
                          <<"chatId", "message", "lastMessage">> }

C3_Witness ==
  /\ finished.result = "ok"
  /\ finished.log = <<"noChatId", "chat", "message", "lastMessage">>

\* C4 as claimed: when the message write of an optimistic send fails, then once
\* handleSend has finished the temporary message is gone from the visible list
\* and the input field holds the text that was in it on submit.
C4_FailedSendRestoresInput ==
  finished.result = "fail" /\ finished.at = "addMessage" =>
    /\ ~TempShown(finished.user, finished.temp)
    /\ newMessage[finished.user] = finished.submitted

\* C4 as amended: ... and the input field holds the submitted text without its
\* leading and trailing whitespace.
C4_FailedSendRestoresTrimmedInput ==
  finished.result = "fail" /\ finished.at = "addMessage" =>
    /\ ~TempShown(finished.user, finished.temp)
    /\ newMessage[finished.user] = Trim(finished.submitted)

C4_Witness ==
  /\ finished.result = "fail"
  /\ finished.at = "addMessage"
  /\ finished.submitted = <<" ", "a">>
  /\ newMessage[finished.user] = <<"a">>

\* C5: after a send succeeds the temporary entry is removed and the sent
\* message shows exactly once in the visible list, as the copy of the live
\* subscription: when handleSend returns, the copy is in the list or the
\* window's subscription to that chat has it in a snapshot still to deliver.
C5_SentMessageShownOnce ==
  finished.result = "ok" =>
    /\ ~TempShown(finished.user, finished.temp)
    /\ \/ Shown(finished.user, finished.ref) = 1
       \/ /\ subscribed[finished.user] = finished.chat
          /\ snapshotPending[finished.user]

\* C6: whenever no send is in flight, the lastMessage of every chat equals the
\* latest document of its message sub-collection in text, senderId and read.
C6_LastMessageInSync ==
  AllIdle =>
    \A c \in ChatIds : messageDocs[c] # <<>> =>
      LET latest == messageDocs[c][Len(messageDocs[c])] IN
        /\ chatDocs[c].lastMessage.tag = "object"
        /\ chatDocs[c].lastMessage.text = latest.text
        /\ chatDocs[c].lastMessage.senderId = latest.senderId
        /\ chatDocs[c].lastMessage.read = latest.read

\* C7: in the chat list the unread badge of a chat shows if and only if the
\* chat has a lastMessage, its sender is not the current user and it is unread.
C7_BadgeIffUnreadFromOther ==
  \A i \in 1..Len(chats) :
    LET last == chats[i].lastMessage
        unreadFromOther == IF last \in {UndefinedMsg, NullMsg} THEN FALSE
                           ELSE last.senderId # currentUser /\ last.read = FALSE
    IN (~BadgeInvisible(chats[i], currentUser)) <=> unreadFromOther

C7_Witness ==
  /\ Len(chats) = 2
  /\ ~BadgeInvisible(chats[1], currentUser)
  /\ chats[2].lastMessage.tag = "object"
  /\ chats[2].lastMessage.read

\* the instant an updatedAt value denotes, in nanoseconds
Instant(updatedAt) ==
  IF updatedAt.kind = "timestamp"
  THEN updatedAt.seconds * 1000000000 + updatedAt.nanoseconds
  ELSE updatedAt.ms * 1000000

Dated(i) == chats[i].updatedAt.kind \in {"timestamp", "iso"}

SameDocuments ==
  /\ Len(chats) = Len(querySnapshot)
  /\ \A i \in 1..Len(querySnapshot) : \E j \in 1..Len(chats) : chats[j] = querySnapshot[i]

C9_LogoutWritesOffline ==
  presenceEvent.type = "logout" =>
    /\ ~users[presenceEvent.user].isOnline
    /\ users[presenceEvent.user].lastSeen = presenceEvent.at

\* C10: a write of isOnline=true is made at session start, on every heartbeat
\* and when the tab becomes visible, so that isOnline is true after each of
\* them; after unload isOnline is false and lastSeen is not earlier than the
\* last heartbeat (for the writes the store accepts).
C10_HeartbeatOnlineUnloadOffline ==
  /\ presenceEvent.type \in {"sessionStart", "heartbeat", "visible"} /\ presenceEvent.accepted =>
       users[presenceEvent.user].isOnline
  /\ presenceEvent.type = "unload" /\ presenceEvent.accepted =>
       /\ ~users[presenceEvent.user].isOnline
       /\ users[presenceEvent.user].lastSeen >= lastHeartbeat[presenceEvent.user]

C10_Witness ==
  /\ presenceEvent.type = "unload"
  /\ presenceEvent.accepted
  /\ lastHeartbeat[presenceEvent.user] > 0
  /\ users[presenceEvent.user].lastSeen > lastHeartbeat[presenceEvent.user]

\* C11: the read flag of a message only ever changes from false to true, and
\* the step that flips it is the snapshot handler of a client whose current
\* user is not the sender of the message.
C11_ReadFlippedOnlyByRecipient ==
  [][\A c \in ChatIds : \A i \in 1..Len(messageDocs[c]) :
       /\ i <= Len(messageDocs'[c])
       /\ messageDocs[c][i].read => messageDocs'[c][i].read
       /\ (~messageDocs[c][i].read /\ messageDocs'[c][i].read)
            => \E u \in Users : u # messageDocs[c][i].senderId /\ MessageSnapshot(u)]_vars

C11_Witness ==
  \E c \in ChatIds : \E i \in 1..Len(messageDocs[c]) :
    /\ messageDocs[c][i].read
    /\ \E u \in Users : u # messageDocs[c][i].senderId /\ subscribed[u] = c

\* C12: when the chat-list subscription is closed (the Sidebar unmounts, the
\* current user changes), every profile subscription it opened is closed too:
\* no profile listener of a Sidebar that is gone stays open, and the profile
\* map changes only while the chat subscription is open.
C12_ProfileSubsClosedWithChatSub ==
  [][/\ \A id \in Contacts : staleSubs'[id] = 0
     /\ recipientsInfo' # recipientsInfo => sidebarMounted \/ sidebarMounted']_vars

\* C19: at any time the mounted Sidebar holds at most one open profile
\* subscription per recipient id.
C19_OneProfileSubPerRecipient ==
  \A id \in Contacts : profileSubs[id] <= 1

\* C13: after the chat id of a window changes or the window unmounts, the
\* message subscription of the previous chat is gone (the open listener is
\* the one of the chat id the window holds), and a read receipt for a message
\* of a chat is only written by a window that holds this chat's id.
C13_NoReadReceiptForPreviousChat ==
  [][/\ \A u \in Users : subscribed'[u] = selectedChatId'[u]
     /\ \A c \in ChatIds :
          (\E i \in 1..Len(messageDocs[c]) :
              i <= Len(messageDocs'[c]) /\ messageDocs'[c][i].read # messageDocs[c][i].read)
          => \E u \in Users : selectedChatId[u] = c /\ MessageSnapshot(u)]_vars

\* a window that had the chat open and marked a message read has left the
\* chat, and a later message of the chat stays unread
C13_Witness ==
  \E u \in Users : \E c \in ChatIds :
    /\ selectedChatId[u] # c
    /\ subscribed[u] # c
    /\ \E i, j \in 1..Len(messageDocs[c]) :
         /\ messageDocs[c][i].senderId # u /\ messageDocs[c][i].read
         /\ messageDocs[c][j].senderId # u /\ ~messageDocs[c][j].read

\* C18: the window shows the loading state only while the message
\* subscription of its current, non-null chat id is open and has its first
\* snapshot still to deliver; with a null chat id the window is never loading.
C18_LoadingOnlyBeforeFirstSnapshot ==
  \A u \in Users :
    loading[u] => /\ selectedChatId[u] # NullId
                  /\ subscribed[u] = selectedChatId[u]
                  /\ snapshotPending[u]

\* C14: no user search returns the profile of the current user, in the primary
\* pass or in the fallback pass, also when the query is the current user's own
\* username.
C14_SearchExcludesCurrentUser ==
  /\ \A k \in 1..Len(searchResults) : searchResults[k].uid # currentUser
  /\ \A k \in 1..Len(searchPrimary) : searchPrimary[k].uid # currentUser

\* the query is the user's own username and the fallback pass found somebody
C14_Witness ==
  /\ searchFallback
  /\ searchResults # <<>>
  /\ \E i \in 1..Len(userDocs) :
       userDocs[i].uid = currentUser /\ userDocs[i].username = ToLowerCase(searchQuery)

\* the index of the first occurrence of the lower-case query in the username
MatchIndex(result) == IndexOf(ToLowerCase(result.username), ToLowerCase(searchQuery))

\* ascending match index, a username without the query last
MatchBefore(a, b) ==
  MatchIndex(b) < 0 \/ (MatchIndex(a) >= 0 /\ MatchIndex(a) <= MatchIndex(b))

ArrivalIndex(result) ==
  CHOOSE k \in 1..Len(searchArrived) : searchArrived[k].uid = result.uid

\* C15: the results of the Sidebar search are ordered online users first; among
\* users of the same online state by the ascending index of the first
\* occurrence of the lower-case query in the username; results that tie on
\* both keep their arrival order.
C15_ResultsRanked ==
  searchBy \in {"sidebar", "realtime"} =>
    \A i, j \in 1..Len(searchResults) :
      i < j =>
        LET a == searchResults[i]
            b == searchResults[j]
        IN /\ a.isOnline \/ ~b.isOnline
           /\ a.isOnline = b.isOnline => MatchBefore(a, b)
           /\ (a.isOnline = b.isOnline /\ MatchIndex(a) = MatchIndex(b))
                => ArrivalIndex(a) < ArrivalIndex(b)

\* the profiles the fallback pass may look at and has to find
FallbackMatches ==
  { userDocs[i].uid : i \in { k \in 1..Len(userDocs) :
      /\ k <= 20
      /\ userDocs[k].uid # currentUser
      /\ \/ StringIncludes(ToLowerCase(userDocs[k].displayName), ToLowerCase(searchQuery))
         \/ StringIncludes(ToLowerCase(userDocs[k].username), ToLowerCase(searchQuery)) } }

\* C16: in the Sidebar search with the fallback, the fallback pass runs only
\* when the primary pass (username >= query, at most 10 documents, usernames
\* that contain the query) found nobody; it then finds exactly the users among
\* the first 20 profiles whose displayName or username contains the
\* lower-case query, whatever the case of the names; no user id shows twice.
C16_FallbackOnlyAfterEmptyPrimary ==
  searchBy = "sidebar" =>
    /\ searchFallback => searchPrimary = <<>>
    /\ Len(searchPrimary) <= 10
    /\ \A k \in 1..Len(searchPrimary) :
         StringIncludes(ToLowerCase(searchPrimary[k].username), ToLowerCase(searchQuery))
    /\ searchFallback => ResultIds(searchResults) = FallbackMatches
    /\ ~searchFallback => ResultIds(searchResults) = ResultIds(searchPrimary)
    /\ \A i, j \in 1..Len(searchResults) :
         searchResults[i].uid = searchResults[j].uid => i = j

\* the fallback pass found somebody among the first 20 profiles and a profile
\* behind them matches the query as well
C16_Witness ==
  /\ searchBy = "sidebar"
  /\ searchFallback
  /\ searchResults # <<>>
  /\ \E k \in 1..Len(userDocs) :
       /\ k > 20
       /\ userDocs[k].uid # currentUser
       /\ StringIncludes(userDocs[k].username, ToLowerCase(searchQuery))

\* the calendar day a message was sent on
DayOf(t) == SentAt(t) \div MsPerDay

\* C17: in a rendered message list, ordered by timestamp ascending, a date
\* separator is shown before message i exactly when i is the first message
\* or the calendar day of message i differs from that of message i-1.
C17_SeparatorBeforeFirstOfDay ==
  \A i \in 1..Len(separators) :
    separators[i] <=> (i = 1 \/ DayOf(datedMessages[i]) # DayOf(datedMessages[i - 1]))

\* message i of chat c was sent by the other participant, is unread, and chat
\* c is open in the window of u
UnreadInOpenChat(u, c, i) ==
  /\ c \in ChatIds
  /\ subscribed[u] = c
  /\ i <= Len(messageDocs[c])
  /\ messageDocs[c][i].senderId # u
  /\ ~messageDocs[c][i].read

ReadOrClosed(u, c, i) ==
  \/ subscribed[u] # c
  \/ c \in ChatIds /\ i <= Len(messageDocs[c]) /\ messageDocs[c][i].read

\* C20: while a chat stays open in the recipient's window and no write fails,
\* every message of the other participant in that chat is eventually stored
\* with read = true.
C20_EventuallyRead ==
  \A u \in Users : \A c \in 1..MaxChats : \A i \in 1..MaxMsgs :
    UnreadInOpenChat(u, c, i) ~> ReadOrClosed(u, c, i)

\* a window that has received its snapshot, with every message of the other
\* participant read and at least one such message
C20_Witness ==
  \E u \in Users :
    /\ subscribed[u] # NullId
    /\ ~snapshotPending[u]
    /\ \E i \in 1..Len(messageDocs[subscribed[u]]) : messageDocs[subscribed[u]][i].senderId # u
    /\ \A i \in 1..Len(messageDocs[subscribed[u]]) :
         messageDocs[subscribed[u]][i].senderId # u => messageDocs[subscribed[u]][i].read

\* the message list of u is the documents of chat c as the store holds them,
\* in their order, and nothing else
MessagesAreSnapshot(u, c) ==
  /\ Len(messages'[u]) = Len(messageDocs[c])
  /\ \A i \in 1..Len(messageDocs[c]) :
       /\ messages'[u][i].id = <<"doc", c, i>>
       /\ messages'[u][i].senderId = messageDocs[c][i].senderId
       /\ messages'[u][i].text = messageDocs[c][i].text
       /\ messages'[u][i].read = messageDocs[c][i].read

\* the chat list is the documents of the snapshot, by updatedAt descending
ChatsAreSnapshot ==
  /\ Len(chats') = Len(querySnapshot)
  /\ \A i \in 1..Len(querySnapshot) : \E j \in 1..Len(chats') : chats'[j] = querySnapshot[i]
  /\ \A j \in 1..Len(chats') : \E i \in 1..Len(querySnapshot) : chats'[j] = querySnapshot[i]
  /\ \A i, j \in 1..Len(chats') :
       i < j => Instant(chats'[i].updatedAt) >= Instant(chats'[j].updatedAt)

C22_NoUnhandledRejection == unhandled = {}

\* C23: once deleteChat(chatId) has returned true, neither the chat document
\* nor any message document under that chat is in the store; and the chat
\* document is deleted only when every message deletion has succeeded.
C23_DeleteChatLeavesNothing ==
  [][/\ (dcPc # "true" /\ dcPc' = "true") =>
          dcChatId \notin storedChats' /\ storedMessages'[dcChatId] = {}
     /\ (dcChatId \in storedChats /\ dcChatId \notin storedChats') => dcPending = {}]_vars

\* the store holds a chat of the user or a message under one of them
ChatDataLeft(chatIds, messageIds) ==
  chatIds # {} \/ \E c \in StoredChatIds : messageIds[c] # {}

\* C29: when re-authentication fails, deleteAccount throws and nothing is
\* deleted, the auth account included; when it goes on, the auth account is
\* deleted only after the chats of the user, their messages and the users
\* document have been deleted.
C29_AccountDeletedLast ==
  [][/\ (daPc = "idle" /\ daPc' = "thrown") =>
          UNCHANGED <<storedChats, storedMessages, storedUsers, accounts>>
     /\ (ClientUser \in accounts /\ ClientUser \notin accounts') =>
          ~ChatDataLeft(storedChats, storedMessages) /\ ClientUser \notin storedUsers]_vars

\* the chats, in the store given, that hold both u and o
ChatsOfPair(docs, u, o) ==
  { c \in 1..Len(docs) : Includes(docs[c].participants, u) /\ Includes(docs[c].participants, o) }

\* C24: called one after the other, createOrGetChat is idempotent per pair of
\* participants: with a chat of both users in the store it returns that
\* chat's id and creates nothing, otherwise it creates exactly one chat; after
\* it the pair has that one chat, so that a later call with the two users in
\* either order returns the same id.
C24_CreateOrGetChatIdempotent ==
  [][\A u \in Users : \A o \in Contacts \ {u} :
       (\E accepted \in BOOLEAN : CreateOrGetChat(u, o, accepted)) /\ finished'.result = "chatId"
         => /\ ChatsOfPair(chatDocs', u, o) = {finished'.id}
            /\ ChatsOfPair(chatDocs, u, o) # {} =>
                 chatDocs' = chatDocs /\ finished'.id \in ChatsOfPair(chatDocs, u, o)
            /\ ChatsOfPair(chatDocs, u, o) = {} =>
                 /\ Len(chatDocs') = Len(chatDocs) + 1
                 /\ SubSeq(chatDocs', 1, Len(chatDocs)) = chatDocs
                 /\ finished'.id = Len(chatDocs')]_vars

\* a call with the two users in the other order has returned the chat that an
\* earlier call created
C24_Witness ==
  /\ finished.result = "chatId"
  /\ ~finished.created
  /\ chatDocs[finished.id].participants = <<finished.other, finished.user>>

\* C25: handleSend is a no-op when the trimmed input is empty or a send of the
\* window is in flight (a chat window has a signed-in user): it writes nothing
\* to the store and leaves the message list and the input as they are; a send
\* begins only with a non-empty trimmed input and no send in flight, so a
\* window has at most one send in flight.
C25_HandleSendGuard ==
  [][\A u \in Users :
       /\ isSending[u] <=> sendPc[u] # "idle"
       /\ HandleSendIgnored(u) => UNCHANGED <<storeVars, messages, newMessage, sendVars, isSending>>
       /\ sendCount' # sendCount /\ submitted'[u] # submitted[u] =>
            /\ Trim(newMessage[u]) # <<>>
            /\ ~isSending[u]
            /\ sendPc[u] = "idle"]_vars

\* a handleSend with text in the field was turned down because the send before
\* it is still in flight
C25_Witness ==
  /\ finished.result = "ignored"
  /\ isSending[finished.user]
  /\ Trim(newMessage[finished.user]) # <<>>
  /\ sendPc[finished.user] = "updateChat"

\* C26: whenever handleSend ends on its failure path (optimistic entry removed,
\* input restored), the store holds no chat document and no message document
\* that this send wrote.
C26_FailedSendWroteNothing ==
  finished.result = "fail" =>
    \A i \in 1..Len(finished.log) : finished.log[i] \notin {"chat", "message"}

\* C27: whenever the recipientProfile of a chat window is not null it is the
\* profile of the window's recipientId, in whatever order the profile reads
\* complete; and a window with a recipient is not left without the profile:
\* while it holds none, a read of it is in flight.
C27_ProfileIsOfRecipient ==
  \A u \in Users :
    /\ recipientProfile[u] # Null => recipientProfile[u] = propRecipientId[u]
    /\ propRecipientId[u] # Null /\ recipientProfile[u] = Null =>
         propRecipientId[u] \in profileReads[u]

\* C28: the presence tracker writes isOnline=false / lastSeen only at unload
\* or at the end of a session; the start of a session writes isOnline=true
\* only, so that logging in leaves the lastSeen of the user as it was.
C28_LastSeenOnlyAtSessionEnd ==
  [][\A u \in Users :
       users'[u].lastSeen # users[u].lastSeen =>
         presenceEvent'.type \in {"unload", "logout"}]_vars

\* C30: every profile edit (updateUserProfile of the auth context, of the user
\* service, and the avatar save) writes only the acting user's own users
\* document, the one whose id is that user's uid, and never its username;
\* every other user's document is left as it was.
C30_ProfileEditWritesOwnDocOnly ==
  [][\A id \in Contacts :
       profileDocs'[id] # profileDocs[id] =>
         /\ id = profileEdit'.user
         /\ profileDocs'[id].username = profileDocs[id].username]_vars

====
